---- MODULE Spec2Model ----
(***************************************************************************)
(* merkle_notes: fixed-height, append-only Merkle trees of notes.          *)
(*                                                                         *)
(* Three embodiments of the MerkleTree trait are driven side by side by    *)
(* the same sequence of add / truncate calls:                              *)
(*   - VectorMerkleTree  (vector/mod.rs): complete binary tree in a deque, *)
(*   - LinkedMerkleTree  (linked/mod.rs): arena of Left/Right/Empty nodes, *)
(*   - RocksMerkleTree / SledMerkleTree (rocks/mod.rs, sled/mod.rs): the   *)
(*     same arena kept in a key/value store that is never garbage          *)
(*     collected.                                                          *)
(* Hashes are terms of the free algebra generated by merkle_hash and       *)
(* combine_hash (the StringHasher of test_helper.rs), so combine_hash is   *)
(* injective and depth-aware.                                              *)
(***************************************************************************)
EXTENDS Integers, Sequences, FiniteSets, TLC

\* ------------------------------------------------------------------ bounds
\* largest tree_depth handed to new_with_size
MaxDepth == 4
\* largest number of leaves a run of the in-memory trees adds
MaxLeaves == 6
\* largest number of leaves a run with the key/value tree adds
KvMaxLeaves == 3
\* number of distinct elements
NumElems == 2

Elements == 1..NumElems
Depths == 1..MaxDepth

\* the tree_depth that new(hasher) hands to new_with_size
default_tree_depth == 33

VARIABLES
    tree_depth,   \* the tree_depth argument of new_with_size
    kv_open,      \* a key/value tree is driven next to the in-memory trees
    vnodes,       \* VectorMerkleTree.nodes (deque, index i at vnodes[i+1])
    leaves,       \* LinkedMerkleTree.leaves (leaf k at leaves[k+1])
    nodes,        \* LinkedMerkleTree.nodes (index i at nodes[i+1])
    counters,     \* key/value tree "counters": LeafCount, NodeCount
    kv_leaves,    \* key/value tree "leaves" (leaf k at kv_leaves[k+1])
    kv_nodes,     \* key/value tree "nodes" (index i >= 1 at kv_nodes[i])
    last,         \* the last public call and its outcome
    kept,         \* history: the elements added and not truncated, in order
    txn           \* SledMerkleTree: the public call under way and its transactions

vars == <<tree_depth, kv_open, vnodes, leaves, nodes, counters, kv_leaves, kv_nodes, last,
          kept, txn>>

\* ------------------------------------------------------------------ hasher
\* String::merkle_hash: the hash of an element is the element
merkle_hash(e) == <<e>>

\* StringHasher::combine_hash: "<left|right-depth>"
combine_hash(depth, left, right) == <<depth, left, right>>

\* Option / panic outcomes of the public queries
None == [tag |-> "None", val |-> <<>>]
Some(v) == [tag |-> "Some", val |-> v]
Panic == [tag |-> "Panic", val |-> <<>>]
Diverge == [tag |-> "Diverge", val |-> <<>>]

\* ------------------------------------------------------------- arithmetic
RECURSIVE Pow2(_)
Pow2(n) == IF n <= 0 THEN 1 ELSE 2 * Pow2(n - 1)

RECURSIVE Log2Floor(_)
Log2Floor(n) == IF n <= 1 THEN 0 ELSE 1 + Log2Floor(n \div 2)

\* `n as f32`: round to a 24 bit mantissa, ties to even
as_f32(n) ==
    IF n < 16777216 THEN n
    ELSE LET shift == Log2Floor(n) - 23
             unit == Pow2(shift)
             q == n \div unit
             r == n % unit
             up == (2 * r > unit) \/ (2 * r = unit /\ q % 2 = 1)
         IN  (IF up THEN q + 1 ELSE q) * unit

\* f32::log2 followed by `as usize` (truncation)
log2_as_usize(n) == Log2Floor(as_f32(n))

Min(a, b) == IF a < b THEN a ELSE b

\* drop the first n entries of a sequence
Drop(s, n) == IF n >= Len(s) THEN <<>> ELSE SubSeq(s, n + 1, Len(s))

\* keep the first n entries of a sequence
Take(s, n) == IF n >= Len(s) THEN s ELSE SubSeq(s, 1, n)

\* ================================================================ vector
VLeaf(e) == [kind |-> "Leaf", element |-> e, hash |-> <<>>]
VInternal(h) == [kind |-> "Internal", element |-> 0, hash |-> h]
VEmpty == [kind |-> "Empty", element |-> 0, hash |-> <<>>]

\* is_complete: num_nodes + 1 is a power of two
is_complete(num_nodes) == Pow2(Log2Floor(num_nodes + 1)) = num_nodes + 1

is_leftmost_path(my_index) == is_complete(my_index)

depth_at_index(index) == log2_as_usize(index + 1) + 1

\* first_leaf: (1 << depth_at_index(num_nodes - 1) - 1) - 1
first_leaf(num_nodes) == Pow2(depth_at_index(num_nodes - 1) - 1) - 1

first_leaf_by_num_leaves(num_leaves) ==
    IF num_leaves = 1 THEN 0 ELSE Pow2(depth_at_index(num_leaves - 2)) - 1

left_child_index(my_index) == (my_index + 1) * 2 - 1

\* ((my_index as f32) / 2.0).ceil() as usize - 1
v_parent_index(my_index) == ((as_f32(my_index) + 1) \div 2) - 1

is_left_child(my_index) == my_index % 2 # 0

\* extract_hash: <<>> stands for Option::None
extract_hash(ns, position) ==
    IF position < 0 \/ position >= Len(ns) THEN <<>>
    ELSE LET n == ns[position + 1]
         IN  CASE n.kind = "Empty" -> <<>>
               [] n.kind = "Leaf" -> merkle_hash(n.element)
               [] OTHER -> n.hash

\* rehash_all_levels: ns holds leaves only; push the internal nodes in front
RECURSIVE rehash_levels_from(_, _, _)
rehash_levels_from(ns, index_being_added, internal_depth) ==
    LET child_node_depth == internal_depth - depth_at_index(index_being_added)
        left_child_in_nodes == left_child_index(index_being_added) - index_being_added - 1
        l == extract_hash(ns, left_child_in_nodes)
        r == extract_hash(ns, left_child_in_nodes + 1)
        new_node == IF l = <<>> THEN VEmpty
                    ELSE IF r = <<>> THEN VInternal(combine_hash(child_node_depth, l, l))
                    ELSE VInternal(combine_hash(child_node_depth, l, r))
        pushed == <<new_node>> \o ns
    IN  IF index_being_added = 0 THEN pushed
        ELSE rehash_levels_from(pushed, index_being_added - 1, internal_depth)

rehash_all_levels(ns) ==
    LET num_internal == first_leaf_by_num_leaves(Len(ns))
    IN  IF num_internal = 0 THEN ns
        ELSE rehash_levels_from(ns, num_internal - 1, depth_at_index(num_internal - 1))

\* rehash_leaf_path: recompute the ancestors of the last leaf
RECURSIVE rehash_leaf_path_from(_, _, _)
rehash_leaf_path_from(ns, current_position, depth) ==
    IF current_position = 0 THEN ns
    ELSE LET parent_position == v_parent_index(current_position)
             left == IF is_left_child(current_position)
                     THEN extract_hash(ns, current_position)
                     ELSE extract_hash(ns, current_position - 1)
             right == IF is_left_child(current_position)
                      THEN extract_hash(ns, current_position + 1)
                      ELSE extract_hash(ns, current_position)
             parent_hash == IF right = <<>> THEN combine_hash(depth, left, left)
                            ELSE combine_hash(depth, left, right)
         IN  rehash_leaf_path_from([ns EXCEPT ![parent_position + 1] = VInternal(parent_hash)],
                                   parent_position, depth + 1)

\* variant that leaves the ancestors of the new leaf as they are
leaf_path_left_stale(ns) == ns

rehash_leaf_path(ns) == rehash_leaf_path_from(ns, Len(ns) - 1, 0)

add_leaf_rehash(ns, element) ==
    rehash_all_levels(Drop(Append(ns, VLeaf(element)), first_leaf(Len(ns))))

\* VectorMerkleTree::add; the result carries whether the call panicked
v_add_full(ns, D) == depth_at_index(Len(ns)) = D + 1

\* variant of add that pushes the leaf before it finds the tree full
v_add_push_first(ns, D, element) ==
    IF Len(ns) = 0 THEN [nodes |-> <<VLeaf(element)>>, panic |-> FALSE]
    ELSE IF is_complete(Len(ns))
    THEN IF v_add_full(ns, D) THEN [nodes |-> Append(ns, VLeaf(element)), panic |-> TRUE]
         ELSE [nodes |-> add_leaf_rehash(ns, element), panic |-> FALSE]
    ELSE [nodes |-> rehash_leaf_path(Append(ns, VLeaf(element))), panic |-> FALSE]

v_add(ns, D, element) ==
    IF Len(ns) = 0 THEN [nodes |-> <<VLeaf(element)>>, panic |-> FALSE]
    ELSE IF is_complete(Len(ns))
    THEN IF v_add_full(ns, D) THEN [nodes |-> ns, panic |-> TRUE]
         ELSE [nodes |-> add_leaf_rehash(ns, element), panic |-> FALSE]
    ELSE [nodes |-> rehash_leaf_path(Append(ns, VLeaf(element))), panic |-> FALSE]

\* variant of len that counts the internal slots of the deque too
v_len_of_deque(ns) == Len(ns)

v_len(ns) == IF Len(ns) = 0 THEN 0 ELSE Len(ns) - first_leaf(Len(ns))

v_get(ns, position) ==
    IF Len(ns) = 0 THEN None
    ELSE LET p == first_leaf(Len(ns)) + position
         IN  IF p < Len(ns) /\ ns[p + 1].kind = "Leaf" THEN Some(ns[p + 1].element) ELSE None

v_truncate(ns, past_size) ==
    IF past_size >= v_len(ns) THEN ns
    ELSE IF past_size = 0 THEN <<>>
    ELSE rehash_all_levels(Drop(Take(ns, Len(ns) - (v_len(ns) - past_size)), first_leaf(Len(ns))))

\* variant of the lift that stops one level below the top
RECURSIVE v_lift_one_short(_, _, _)
v_lift_one_short(cur, i, D) ==
    IF i >= D - 1 THEN cur ELSE v_lift_one_short(combine_hash(i - 1, cur, cur), i + 1, D)

RECURSIVE v_lift(_, _, _)
v_lift(cur, i, D) == IF i >= D THEN cur ELSE v_lift(combine_hash(i - 1, cur, cur), i + 1, D)

v_root_hash(ns, D) ==
    IF extract_hash(ns, 0) = <<>> THEN None
    ELSE Some(v_lift(extract_hash(ns, 0), depth_at_index(Len(ns) - 1), D))

\* VectorMerkleTree::past_root
RECURSIVE v_past_root_walk(_, _, _, _, _)
v_past_root_walk(ns, cur, current_hash, depth, D) ==
    IF is_leftmost_path(cur)
    THEN Some(v_lift(current_hash, depth + 1, D))
    ELSE IF is_left_child(cur)
    THEN v_past_root_walk(ns, v_parent_index(cur), combine_hash(depth, current_hash, current_hash),
                          depth + 1, D)
    ELSE IF extract_hash(ns, cur - 1) = <<>> THEN Panic
    ELSE v_past_root_walk(ns, v_parent_index(cur),
                          combine_hash(depth, extract_hash(ns, cur - 1), current_hash),
                          depth + 1, D)

\* variant of past_root that answers with the root of the tree as it is now
v_past_root_of_now(ns, D, past_size) ==
    IF Len(ns) = 0 \/ past_size > v_len(ns) THEN None ELSE v_root_hash(ns, D)

v_past_root(ns, D, past_size) ==
    IF Len(ns) = 0 \/ past_size > v_len(ns) THEN None
    ELSE LET cur == first_leaf(Len(ns)) + past_size - 1
         IN  IF cur < 0 \/ extract_hash(ns, cur) = <<>> THEN Panic
             ELSE v_past_root_walk(ns, cur, extract_hash(ns, cur), 0, D)

\* VectorLeafIterator: the elements of the slots from first_leaf on
v_iter_notes(ns) ==
    IF Len(ns) = 0 THEN <<>>
    ELSE [i \in 1..(Len(ns) - first_leaf(Len(ns))) |-> ns[first_leaf(Len(ns)) + i].element]

\* variant of the scan that looks at the note at index past_size too
scan_contained_inclusive(notes, value, past_size) ==
    \E i \in 1..Len(notes) : i - 1 <= past_size /\ notes[i] = value

\* contained: linear scan of the first past_size notes
scan_contained(notes, value, past_size) ==
    \E i \in 1..Len(notes) : i - 1 < past_size /\ notes[i] = value

v_contained(ns, value, past_size) == scan_contained(v_iter_notes(ns), value, past_size)

\* MerkleTree::contains: contained at the current size
v_contains(ns, value) == v_contained(ns, value, v_len(ns))

\* ---------------------------------------------------------------- witness
WLeft(h) == [side |-> "Left", hash |-> h]
WRight(h) == [side |-> "Right", hash |-> h]
Witness(size, root, path) == [tree_size |-> size, root_hash |-> root, auth_path |-> path]

\* Witness::verify: fold the path from depth 0 and compare with root_hash
RECURSIVE verify_fold(_, _, _)
verify_fold(auth_path, i, cur_hash) ==
    IF i >= Len(auth_path) THEN cur_hash
    ELSE LET node == auth_path[i + 1]
         IN  verify_fold(auth_path, i + 1,
                 IF node.side = "Left" THEN combine_hash(i, cur_hash, node.hash)
                 ELSE combine_hash(i, node.hash, cur_hash))

\* variant of verify whose fold starts one level up, skipping the leaf's sibling
verify_from_level_one(w, my_hash) == verify_fold(w.auth_path, 1, my_hash) = w.root_hash

verify(w, my_hash) == verify_fold(w.auth_path, 0, my_hash) = w.root_hash

\* VectorMerkleTree::witness
RECURSIVE v_witness_pad(_, _, _, _)
v_witness_pad(auth_path, sibling_hash, depth, D) ==
    IF Len(auth_path) >= D - 1 THEN auth_path
    ELSE v_witness_pad(Append(auth_path, WLeft(sibling_hash)),
                       combine_hash(depth, sibling_hash, sibling_hash), depth + 1, D)

RECURSIVE v_witness_walk(_, _, _, _, _)
v_witness_walk(ns, current_position, auth_path, depth, D) ==
    IF current_position = 0
    THEN IF extract_hash(ns, 0) = <<>> \/ v_root_hash(ns, D).tag # "Some" THEN Panic
         ELSE Some(Witness(v_len(ns), v_root_hash(ns, D).val,
                           v_witness_pad(auth_path, extract_hash(ns, 0), depth, D)))
    ELSE IF extract_hash(ns, current_position) = <<>> THEN Panic
    ELSE IF is_left_child(current_position)
    THEN LET my_hash == extract_hash(ns, current_position)
             sib == extract_hash(ns, current_position + 1)
         IN  v_witness_walk(ns, v_parent_index(current_position),
                            Append(auth_path, WLeft(IF sib = <<>> THEN my_hash ELSE sib)),
                            depth + 1, D)
    ELSE IF extract_hash(ns, current_position - 1) = <<>> THEN Panic
    ELSE v_witness_walk(ns, v_parent_index(current_position),
                        Append(auth_path, WRight(extract_hash(ns, current_position - 1))),
                        depth + 1, D)

v_witness(ns, D, position) ==
    IF v_len(ns) = 0 \/ position >= v_len(ns) THEN None
    ELSE v_witness_walk(ns, first_leaf(Len(ns)) + position, <<>>, 0, D)

\* ================================================================ linked
\* InternalNode::{Left, Right, Empty}
Left(parent, hash_of_sibling) ==
    [kind |-> "Left", parent |-> parent, left |-> 0, hash_of_sibling |-> hash_of_sibling]
Right(left, hash_of_sibling) ==
    [kind |-> "Right", parent |-> 0, left |-> left, hash_of_sibling |-> hash_of_sibling]
Empty == [kind |-> "Empty", parent |-> 0, left |-> 0, hash_of_sibling |-> <<>>]
\* what a read past the end of the arena yields: the accessor panics
OutOfRange == [kind |-> "OutOfRange", parent |-> 0, left |-> 0, hash_of_sibling |-> <<>>]

LeafNode(element, parent) == [element |-> element, parent |-> parent]

\* new_with_size stores tree_depth - 1
stored_depth(D) == D - 1

is_right_leaf(value) == value % 2 = 1

\* depth_at_leaf_count: ((n - 1) as f32).log2() as usize + 2
depth_at_leaf_count(index) ==
    IF index = 0 THEN 0
    ELSE IF index = 1 THEN 1
    ELSE log2_as_usize(index - 1) + 2

node_at(ns, index) == IF index + 1 <= Len(ns) THEN ns[index + 1] ELSE OutOfRange

set_node(ns, index, node) == [ns EXCEPT ![index + 1] = node]

RECURSIVE parent_index(_, _)
parent_index(ns, index) ==
    LET n == node_at(ns, index)
    IN  CASE n.kind = "Left" -> n.parent
          [] n.kind = "Right" -> parent_index(ns, n.left)
          [] OTHER -> 0

most_recent_node_index(ns) == Len(ns) - 1

\* variant of the loop that, at a Right node, leaves the left sibling as it is
RECURSIVE rehash_skipping_left_sibling(_, _, _, _)
rehash_skipping_left_sibling(ns, parent_idx, parent_hash, depth) ==
    LET node == node_at(ns, parent_idx)
        d == depth + 1
    IN  CASE node.kind = "Empty" -> [nodes |-> ns, panic |-> FALSE]
          [] node.kind = "Left" ->
                rehash_skipping_left_sibling(
                    set_node(ns, parent_idx, Left(node.parent, parent_hash)),
                    node.parent, combine_hash(d, parent_hash, parent_hash), d)
          [] node.kind = "Right" ->
                IF node_at(ns, node.left).kind = "OutOfRange" THEN [nodes |-> ns, panic |-> TRUE]
                ELSE rehash_skipping_left_sibling(
                         ns, parent_index(ns, node.left),
                         combine_hash(d, node.hash_of_sibling, parent_hash), d)
          [] OTHER -> [nodes |-> ns, panic |-> TRUE]

\* the loop of rehash_right_path; depth is the value before `depth += 1`
RECURSIVE rehash_right_path_from(_, _, _, _)
rehash_right_path_from(ns, parent_idx, parent_hash, depth) ==
    LET node == node_at(ns, parent_idx)
        d == depth + 1
    IN  CASE node.kind = "Empty" -> [nodes |-> ns, panic |-> FALSE]
          [] node.kind = "Left" ->
                rehash_right_path_from(set_node(ns, parent_idx, Left(node.parent, parent_hash)),
                                       node.parent, combine_hash(d, parent_hash, parent_hash), d)
          [] node.kind = "Right" ->
                IF node_at(ns, node.left).kind = "OutOfRange" THEN [nodes |-> ns, panic |-> TRUE]
                ELSE rehash_right_path_from(
                         set_node(ns, node.left, Left(parent_index(ns, node.left), parent_hash)),
                         parent_index(ns, node.left),
                         combine_hash(d, node.hash_of_sibling, parent_hash), d)
          [] OTHER -> [nodes |-> ns, panic |-> TRUE]

\* variant that starts from the last leaf paired with itself, left or right
rehash_from_self_paired_leaf(ls, ns) ==
    LET leaf_index == Len(ls) - 1
        h == merkle_hash(ls[leaf_index + 1].element)
    IN  rehash_right_path_from(ns, ls[leaf_index + 1].parent, combine_hash(0, h, h), 0)

\* variant that pairs a lone left leaf with the hash of no element
rehash_pairing_lone_leaf_with_nothing(ls, ns) ==
    LET leaf_index == Len(ls) - 1
        h == merkle_hash(ls[leaf_index + 1].element)
        parent_hash == IF is_right_leaf(leaf_index)
                       THEN combine_hash(0, merkle_hash(ls[leaf_index].element), h)
                       ELSE combine_hash(0, h, merkle_hash(0))
    IN  rehash_right_path_from(ns, ls[leaf_index + 1].parent, parent_hash, 0)

rehash_right_path(ls, ns) ==
    LET leaf_index == Len(ls) - 1
        h == merkle_hash(ls[leaf_index + 1].element)
        parent_hash == IF is_right_leaf(leaf_index)
                       THEN combine_hash(0, merkle_hash(ls[leaf_index].element), h)
                       ELSE combine_hash(0, h, h)
    IN  rehash_right_path_from(ns, ls[leaf_index + 1].parent, parent_hash, 0)

\* the walk of add for a new left leaf: grow the parent chain
RECURSIVE add_walk(_, _, _, _)
add_walk(ns, previous_parent_index, my_hash, depth) ==
    LET previous_parent == node_at(ns, previous_parent_index)
    IN  CASE previous_parent.kind = "Left" ->
                LET pushed == Append(ns, Right(previous_parent_index,
                                               previous_parent.hash_of_sibling))
                    grown == Append(pushed,
                                    Left(0, combine_hash(depth, previous_parent.hash_of_sibling,
                                                         my_hash)))
                IN  IF previous_parent.parent = 0
                    THEN [nodes |-> set_node(grown, previous_parent_index,
                                             Left(most_recent_node_index(grown),
                                                  previous_parent.hash_of_sibling)),
                          panic |-> FALSE]
                    ELSE [nodes |-> pushed, panic |-> FALSE]
          [] previous_parent.kind = "Right" ->
                LET hashed == combine_hash(depth, my_hash, my_hash)
                IN  add_walk(Append(ns, Left(Len(ns) + 1, hashed)),
                             parent_index(ns, previous_parent.left), hashed, depth + 1)
          [] OTHER -> [nodes |-> ns, panic |-> TRUE]

\* variant of the capacity test that lets one more leaf in
l_add_full_late(ls, D) == Len(ls) > Pow2(stored_depth(D))

\* the capacity test at the head of add
l_add_full(ls, D) == Len(ls) >= Pow2(stored_depth(D))

\* variant of add in which a right leaf beside an existing parent keeps the
\* parent index it was pushed with
l_add_right_leaf_unbound(ls, ns, D, element) ==
    LET index_of_new_leaf == Len(ls)
        new_parent_index == IF Len(ls) = 0 THEN 0 ELSE Len(ns)
        leaf_hash == merkle_hash(element)
        pushed == Append(ls, LeafNode(element, new_parent_index))
    IN  IF l_add_full(ls, D) THEN [leaves |-> ls, nodes |-> ns, panic |-> TRUE]
        ELSE IF Len(pushed) = 1 THEN [leaves |-> pushed, nodes |-> ns, panic |-> FALSE]
        ELSE IF is_right_leaf(index_of_new_leaf)
        THEN LET left_leaf == pushed[index_of_new_leaf]
                 parent == node_at(ns, left_leaf.parent)
                 ls2 == IF parent.kind = "Empty"
                        THEN [pushed EXCEPT ![index_of_new_leaf].parent = new_parent_index]
                        ELSE pushed
                 ns2 == IF parent.kind = "Empty"
                        THEN Append(ns, Left(0, combine_hash(0, merkle_hash(left_leaf.element),
                                                             leaf_hash)))
                        ELSE ns
                 r == rehash_right_path(ls2, ns2)
             IN  IF parent.kind = "OutOfRange"
                 THEN [leaves |-> pushed, nodes |-> ns, panic |-> TRUE]
                 ELSE [leaves |-> ls2, nodes |-> r.nodes, panic |-> r.panic]
        ELSE LET w == add_walk(ns, pushed[index_of_new_leaf].parent,
                               combine_hash(0, leaf_hash, leaf_hash), 1)
                 r == rehash_right_path(pushed, w.nodes)
             IN  IF w.panic THEN [leaves |-> pushed, nodes |-> w.nodes, panic |-> TRUE]
                 ELSE [leaves |-> pushed, nodes |-> r.nodes, panic |-> r.panic]

\* LinkedMerkleTree::add
l_add(ls, ns, D, element) ==
    LET index_of_new_leaf == Len(ls)
        new_parent_index == IF Len(ls) = 0 THEN 0 ELSE Len(ns)
        leaf_hash == merkle_hash(element)
        pushed == Append(ls, LeafNode(element, new_parent_index))
    IN  IF l_add_full(ls, D) THEN [leaves |-> ls, nodes |-> ns, panic |-> TRUE]
        ELSE IF Len(pushed) = 1 THEN [leaves |-> pushed, nodes |-> ns, panic |-> FALSE]
        ELSE IF is_right_leaf(index_of_new_leaf)
        THEN LET left_leaf == pushed[index_of_new_leaf]
                 parent == node_at(ns, left_leaf.parent)
                 ls2 == IF parent.kind = "Empty"
                        THEN [pushed EXCEPT ![index_of_new_leaf].parent = new_parent_index]
                        ELSE [pushed EXCEPT ![index_of_new_leaf + 1].parent = left_leaf.parent]
                 ns2 == IF parent.kind = "Empty"
                        THEN Append(ns, Left(0, combine_hash(0, merkle_hash(left_leaf.element),
                                                             leaf_hash)))
                        ELSE ns
                 r == rehash_right_path(ls2, ns2)
             IN  IF parent.kind = "OutOfRange"
                 THEN [leaves |-> pushed, nodes |-> ns, panic |-> TRUE]
                 ELSE [leaves |-> ls2, nodes |-> r.nodes, panic |-> r.panic]
        ELSE LET w == add_walk(ns, pushed[index_of_new_leaf].parent,
                               combine_hash(0, leaf_hash, leaf_hash), 1)
                 r == rehash_right_path(pushed, w.nodes)
             IN  IF w.panic THEN [leaves |-> pushed, nodes |-> w.nodes, panic |-> TRUE]
                 ELSE [leaves |-> pushed, nodes |-> r.nodes, panic |-> r.panic]

l_len(ls) == Len(ls)

l_get(ls, position) == IF position < Len(ls) THEN Some(ls[position + 1].element) ELSE None

l_iter_notes(ls) == [i \in 1..Len(ls) |-> ls[i].element]

\* the while loop of LinkedMerkleTree::root_hash; it stops when depth meets the
\* stored depth and cannot stop once depth is past it
RECURSIVE l_root_hash_walk(_, _, _, _, _)
l_root_hash_walk(ns, current_node_index, current_hash, depth, stored) ==
    IF depth = stored THEN Some(current_hash)
    ELSE IF depth > stored THEN Diverge
    ELSE LET current_node == node_at(ns, current_node_index)
         IN  CASE current_node.kind = "Left" ->
                    l_root_hash_walk(ns, parent_index(ns, current_node_index),
                        combine_hash(depth, current_hash, current_node.hash_of_sibling),
                        depth + 1, stored)
               [] current_node.kind = "Right" ->
                    l_root_hash_walk(ns, parent_index(ns, current_node_index),
                        combine_hash(depth, current_node.hash_of_sibling, current_hash),
                        depth + 1, stored)
               [] current_node.kind = "Empty" ->
                    l_root_hash_walk(ns, parent_index(ns, current_node_index),
                        combine_hash(depth, current_hash, current_hash),
                        depth + 1, stored)
               [] OTHER -> Panic

l_root_hash(ls, ns, D) ==
    IF Len(ls) = 0 THEN None
    ELSE LET left_hash == merkle_hash(ls[1].element)
             right_hash == IF Len(ls) >= 2 THEN merkle_hash(ls[2].element) ELSE left_hash
         IN  l_root_hash_walk(ns, ls[1].parent, combine_hash(0, left_hash, right_hash),
                              1, stored_depth(D))

\* the tail of past_root: self-pair from root_depth up to the stored depth
RECURSIVE lift_from(_, _, _)
lift_from(current_hash, depth, stored) ==
    IF depth >= stored THEN current_hash
    ELSE lift_from(combine_hash(depth, current_hash, current_hash), depth + 1, stored)

\* the first loop of past_root: depth in 1..min(root_depth, stored)
RECURSIVE past_root_walk(_, _, _, _, _)
past_root_walk(ns, current_node_index, current_hash, depth, limit) ==
    IF depth >= limit THEN Some(current_hash)
    ELSE LET n == node_at(ns, current_node_index)
         IN  CASE n.kind = "Left" ->
                    past_root_walk(ns, n.parent, combine_hash(depth, current_hash, current_hash),
                                   depth + 1, limit)
               [] n.kind = "Right" ->
                    IF node_at(ns, n.left).kind = "OutOfRange" THEN Panic
                    ELSE past_root_walk(ns, parent_index(ns, n.left),
                                        combine_hash(depth, n.hash_of_sibling, current_hash),
                                        depth + 1, limit)
               [] OTHER -> Panic

\* LinkedMerkleTree::past_root
l_past_root(ls, ns, D, past_size) ==
    LET root_depth == depth_at_leaf_count(past_size)
        leaf_index == past_size - 1
    IN  IF Len(ls) = 0 \/ past_size > Len(ls) THEN None
        ELSE IF leaf_index < 0 THEN Panic
        ELSE LET h == merkle_hash(ls[leaf_index + 1].element)
                 first == IF is_right_leaf(leaf_index)
                          THEN combine_hash(0, merkle_hash(ls[leaf_index].element), h)
                          ELSE combine_hash(0, h, h)
                 up == past_root_walk(ns, ls[leaf_index + 1].parent, first, 1,
                                      Min(root_depth, stored_depth(D)))
             IN  IF up.tag # "Some" THEN up
                 ELSE Some(lift_from(up.val, root_depth, stored_depth(D)))

\* the loop of truncate: follow parent links, remember the largest index seen
RECURSIVE truncate_walk(_, _, _, _)
truncate_walk(ns, parent, max_parent, steps) ==
    IF steps = 0 THEN [parent |-> parent, max_parent |-> max_parent, panic |-> FALSE]
    ELSE IF node_at(ns, parent).kind = "OutOfRange"
    THEN [parent |-> parent, max_parent |-> max_parent, panic |-> TRUE]
    ELSE LET p == parent_index(ns, parent)
         IN  truncate_walk(ns, p, IF p > max_parent THEN p ELSE max_parent, steps - 1)

\* variant of pop_nodes that pops one node too many
pop_nodes_one_more(ns, max_parent) == Take(ns, max_parent)

\* the nodes left once truncate has popped every index above max_parent
pop_nodes(ns, max_parent) == Take(ns, max_parent + 1)

\* variant of truncate that leaves the parent link of the new root as it is
l_truncate_keeping_root_parent(ls, ns, past_size) ==
    IF past_size >= Len(ls) THEN [leaves |-> ls, nodes |-> ns, panic |-> FALSE]
    ELSE LET popped == Take(ls, past_size)
         IN  IF past_size = 0 THEN [leaves |-> popped, nodes |-> <<Empty>>, panic |-> FALSE]
             ELSE IF past_size = 1
             THEN [leaves |-> [popped EXCEPT ![1].parent = 0], nodes |-> <<Empty>>,
                   panic |-> FALSE]
             ELSE LET depth == depth_at_leaf_count(Len(popped)) - 2
                      w == truncate_walk(ns, popped[Len(popped)].parent,
                                         popped[Len(popped)].parent, depth)
                      top == node_at(ns, w.parent)
                      cut == pop_nodes(ns, w.max_parent)
                      r == rehash_right_path(popped, cut)
                  IN  IF w.panic \/ top.kind # "Left"
                      THEN [leaves |-> popped, nodes |-> ns, panic |-> TRUE]
                      ELSE [leaves |-> popped, nodes |-> r.nodes, panic |-> r.panic]

\* variant of truncate that leaves the parent of leaf 0 as it is at past_size 1
l_truncate_keeping_leaf_parent(ls, ns, past_size) ==
    IF past_size >= Len(ls) THEN [leaves |-> ls, nodes |-> ns, panic |-> FALSE]
    ELSE LET popped == Take(ls, past_size)
         IN  IF past_size = 0 \/ past_size = 1
             THEN [leaves |-> popped, nodes |-> <<Empty>>, panic |-> FALSE]
             ELSE LET depth == depth_at_leaf_count(Len(popped)) - 2
                      w == truncate_walk(ns, popped[Len(popped)].parent,
                                         popped[Len(popped)].parent, depth)
                      top == node_at(ns, w.parent)
                      rebound == set_node(ns, w.parent, Left(0, top.hash_of_sibling))
                      cut == pop_nodes(rebound, w.max_parent)
                      r == rehash_right_path(popped, cut)
                  IN  IF w.panic \/ top.kind # "Left"
                      THEN [leaves |-> popped, nodes |-> ns, panic |-> TRUE]
                      ELSE [leaves |-> popped, nodes |-> r.nodes, panic |-> r.panic]

\* LinkedMerkleTree::truncate
l_truncate(ls, ns, past_size) ==
    IF past_size >= Len(ls) THEN [leaves |-> ls, nodes |-> ns, panic |-> FALSE]
    ELSE LET popped == Take(ls, past_size)
         IN  IF past_size = 0 THEN [leaves |-> popped, nodes |-> <<Empty>>, panic |-> FALSE]
             ELSE IF past_size = 1
             THEN [leaves |-> [popped EXCEPT ![1].parent = 0], nodes |-> <<Empty>>,
                   panic |-> FALSE]
             ELSE LET depth == depth_at_leaf_count(Len(popped)) - 2
                      w == truncate_walk(ns, popped[Len(popped)].parent,
                                         popped[Len(popped)].parent, depth)
                      top == node_at(ns, w.parent)
                      rebound == set_node(ns, w.parent, Left(0, top.hash_of_sibling))
                      cut == pop_nodes(rebound, w.max_parent)
                      r == rehash_right_path(popped, cut)
                  IN  IF w.panic \/ top.kind # "Left"
                      THEN [leaves |-> popped, nodes |-> ns, panic |-> TRUE]
                      ELSE [leaves |-> popped, nodes |-> r.nodes, panic |-> r.panic]

\* ======================================================= key/value store
\* Rocker::num_leaves / num_nodes: the counter, or 0 when the key is absent
num_leaves(c) == IF "LeafCount" \in DOMAIN c THEN c["LeafCount"] ELSE 0

num_nodes(c) == IF "NodeCount" \in DOMAIN c THEN c["NodeCount"] ELSE 0

set_counter(c, key, value) ==
    [k \in (DOMAIN c) \cup {key} |-> IF k = key THEN value ELSE c[k]]

set_num_leaves(c, length) == set_counter(c, "LeafCount", length)

set_num_nodes(c, count) == set_counter(c, "NodeCount", count)

\* a stored leaf: the LeafData record (parent, hash) and the LeafElement record
KvLeaf(element, parent, hash) == [element |-> element, parent |-> parent, hash |-> hash]

\* the key of leaf k is present once it has been written, whatever LeafCount is
has_leaf(kl, index) == index >= 0 /\ index < Len(kl)

set_leaf(kl, index, leaf) ==
    IF index < Len(kl) THEN [kl EXCEPT ![index + 1] = leaf] ELSE Append(kl, leaf)

\* node 0 is the Empty marker; the key of node i >= 1 is present once written
get_node(kn, index) ==
    IF index = 0 THEN Empty
    ELSE IF index <= Len(kn) THEN kn[index]
    ELSE OutOfRange

kv_set_node(kn, index, node) ==
    IF index = 0 THEN kn
    ELSE IF index <= Len(kn) THEN [kn EXCEPT ![index] = node]
    ELSE Append(kn, node)

RECURSIVE get_node_parent(_, _)
get_node_parent(kn, index) ==
    LET n == get_node(kn, index)
    IN  CASE n.kind = "Left" -> n.parent
          [] n.kind = "Right" -> get_node_parent(kn, n.left)
          [] OTHER -> 0

\* the loop of RocksMerkleTree::rehash_right_path
RECURSIVE r_rehash_from(_, _, _, _)
r_rehash_from(kn, parent_idx, parent_hash, depth) ==
    LET node == get_node(kn, parent_idx)
        d == depth + 1
    IN  CASE node.kind = "Empty" -> [nodes |-> kn, panic |-> FALSE]
          [] node.kind = "Left" ->
                r_rehash_from(kv_set_node(kn, parent_idx, Left(node.parent, parent_hash)),
                              node.parent, combine_hash(d, parent_hash, parent_hash), d)
          [] node.kind = "Right" ->
                IF get_node(kn, node.left).kind = "OutOfRange" THEN [nodes |-> kn, panic |-> TRUE]
                ELSE r_rehash_from(
                         kv_set_node(kn, node.left,
                                     Left(get_node_parent(kn, node.left), parent_hash)),
                         get_node_parent(kn, node.left),
                         combine_hash(d, node.hash_of_sibling, parent_hash), d)
          [] OTHER -> [nodes |-> kn, panic |-> TRUE]

r_rehash_right_path(c, kl, kn) ==
    LET leaf_index == num_leaves(c) - 1
        leaf == kl[leaf_index + 1]
        parent_hash == IF is_right_leaf(leaf_index)
                       THEN combine_hash(0, kl[leaf_index].hash, leaf.hash)
                       ELSE combine_hash(0, leaf.hash, leaf.hash)
    IN  IF ~has_leaf(kl, leaf_index) THEN [nodes |-> kn, panic |-> TRUE]
        ELSE r_rehash_from(kn, leaf.parent, parent_hash, 0)

\* the walk of RocksMerkleTree::add for a new left leaf
RECURSIVE r_add_walk(_, _, _, _, _)
r_add_walk(kn, next_node_index, previous_parent_index, my_hash, depth) ==
    LET previous_parent == get_node(kn, previous_parent_index)
    IN  CASE previous_parent.kind = "Left" ->
                LET kn1 == kv_set_node(kn, next_node_index,
                                       Right(previous_parent_index,
                                             previous_parent.hash_of_sibling))
                    kn2 == kv_set_node(kn1, next_node_index + 1,
                                       Left(0, combine_hash(depth,
                                                            previous_parent.hash_of_sibling,
                                                            my_hash)))
                    kn3 == kv_set_node(kn2, previous_parent_index,
                                       Left(next_node_index + 1,
                                            previous_parent.hash_of_sibling))
                IN  IF previous_parent.parent = 0
                    THEN [nodes |-> kn3, count |-> next_node_index + 2, panic |-> FALSE]
                    ELSE [nodes |-> kn1, count |-> next_node_index + 1, panic |-> FALSE]
          [] previous_parent.kind = "Right" ->
                LET hashed == combine_hash(depth, my_hash, my_hash)
                IN  r_add_walk(kv_set_node(kn, next_node_index,
                                           Left(next_node_index + 1, hashed)),
                               next_node_index + 1,
                               get_node_parent(kn, previous_parent.left), hashed, depth + 1)
          [] OTHER -> [nodes |-> kn, count |-> next_node_index, panic |-> TRUE]

r_add_full(c, D) == num_leaves(c) >= Pow2(stored_depth(D))

\* the store after the writes that precede rehash_right_path in add
r_add_linked(c, kl, kn, element) ==
    LET index_of_new_leaf == num_leaves(c)
        leaf_hash == merkle_hash(element)
    IN  IF index_of_new_leaf = 0
        THEN [c |-> c, kl |-> kl, kn |-> kn, parent |-> 0, panic |-> FALSE]
        ELSE IF index_of_new_leaf = 1
        THEN IF ~has_leaf(kl, 0)
             THEN [c |-> c, kl |-> kl, kn |-> kn, parent |-> 0, panic |-> TRUE]
             ELSE [c |-> set_num_nodes(c, 2),
                   kl |-> set_leaf(kl, 0, [kl[1] EXCEPT !.parent = 1]),
                   kn |-> kv_set_node(kn, 1, Left(0, combine_hash(0, kl[1].hash, leaf_hash))),
                   parent |-> 1, panic |-> FALSE]
        ELSE IF is_right_leaf(index_of_new_leaf)
        THEN IF ~has_leaf(kl, index_of_new_leaf - 1)
             THEN [c |-> c, kl |-> kl, kn |-> kn, parent |-> 0, panic |-> TRUE]
             ELSE [c |-> c, kl |-> kl, kn |-> kn, parent |-> kl[index_of_new_leaf].parent,
                   panic |-> FALSE]
        ELSE IF ~has_leaf(kl, index_of_new_leaf - 1)
        THEN [c |-> c, kl |-> kl, kn |-> kn, parent |-> 0, panic |-> TRUE]
        ELSE LET w == r_add_walk(kn, num_nodes(c), kl[index_of_new_leaf].parent,
                                 combine_hash(0, leaf_hash, leaf_hash), 1)
             IN  [c |-> IF w.count = num_nodes(c) THEN c ELSE set_num_nodes(c, w.count),
                  kl |-> kl, kn |-> w.nodes, parent |-> num_nodes(c), panic |-> w.panic]

\* RocksMerkleTree::add (SledMerkleTree::add runs the same steps in a transaction)
r_add(c, kl, kn, D, element) ==
    LET index_of_new_leaf == num_leaves(c)
        g == r_add_linked(c, kl, kn, element)
        c2 == set_num_leaves(g.c, index_of_new_leaf + 1)
        kl2 == set_leaf(g.kl, index_of_new_leaf,
                        KvLeaf(element, g.parent, merkle_hash(element)))
        r == r_rehash_right_path(c2, kl2, g.kn)
    IN  IF r_add_full(c, D) THEN [c |-> c, kl |-> kl, kn |-> kn, panic |-> TRUE]
        ELSE IF g.panic THEN [c |-> g.c, kl |-> g.kl, kn |-> g.kn, panic |-> TRUE]
        ELSE [c |-> c2, kl |-> kl2, kn |-> r.nodes, panic |-> r.panic]

r_len(c) == num_leaves(c)

\* RocksMerkleTree::get: whatever LeafElement record is stored under the key
r_get(kl, position) == IF has_leaf(kl, position) THEN Some(kl[position + 1].element) ELSE None

r_iter_notes(c, kl) == [i \in 1..num_leaves(c) |-> kl[i].element]

r_contained(c, kl, value, past_size) == scan_contained(r_iter_notes(c, kl), value, past_size)

r_contains(c, kl, value) == r_contained(c, kl, value, r_len(c))

RECURSIVE r_truncate_walk(_, _, _, _)
r_truncate_walk(kn, parent, max_parent, steps) ==
    IF steps = 0 THEN [parent |-> parent, max_parent |-> max_parent, panic |-> FALSE]
    ELSE IF get_node(kn, parent).kind = "OutOfRange"
    THEN [parent |-> parent, max_parent |-> max_parent, panic |-> TRUE]
    ELSE LET p == get_node_parent(kn, parent)
         IN  r_truncate_walk(kn, p, IF p > max_parent THEN p ELSE max_parent, steps - 1)

\* variant of truncate whose no-op test is past_size > len, so that
\* truncate(len) on a tree of at most one leaf rewrites the counters
r_truncate_beyond_only(c, kl, kn, past_size) ==
    IF past_size > num_leaves(c) \/ past_size > 1
    THEN [c |-> c, kl |-> kl, kn |-> kn, panic |-> FALSE]
    ELSE [c |-> set_num_nodes(set_num_leaves(c, past_size), 1), kl |-> kl, kn |-> kn,
          panic |-> FALSE]

\* RocksMerkleTree::truncate (SledMerkleTree::truncate inside a transaction):
\* only the counters move, the records past them stay in the store
r_truncate(c, kl, kn, past_size) ==
    IF past_size >= num_leaves(c) THEN [c |-> c, kl |-> kl, kn |-> kn, panic |-> FALSE]
    ELSE LET c1 == set_num_leaves(c, past_size)
         IN  IF past_size = 0
             THEN [c |-> set_num_nodes(c1, 1), kl |-> kl, kn |-> kn, panic |-> FALSE]
             ELSE IF past_size = 1
             THEN [c |-> set_num_nodes(c1, 1),
                   kl |-> set_leaf(kl, 0, [kl[1] EXCEPT !.parent = 0]),
                   kn |-> kn, panic |-> FALSE]
             ELSE LET depth == depth_at_leaf_count(past_size) - 2
                      w == r_truncate_walk(kn, kl[past_size].parent, kl[past_size].parent, depth)
                      top == get_node(kn, w.parent)
                      rebound == kv_set_node(kn, w.parent, Left(0, top.hash_of_sibling))
                      c2 == set_num_nodes(c1, w.max_parent + 1)
                      r == r_rehash_right_path(c2, kl, rebound)
                  IN  IF w.panic \/ top.kind # "Left"
                      THEN [c |-> c1, kl |-> kl, kn |-> kn, panic |-> TRUE]
                      ELSE [c |-> c2, kl |-> kl, kn |-> r.nodes, panic |-> r.panic]

RECURSIVE r_past_root_walk(_, _, _, _, _)
r_past_root_walk(kn, current_node_index, current_hash, depth, limit) ==
    IF depth >= limit THEN Some(current_hash)
    ELSE LET n == get_node(kn, current_node_index)
         IN  CASE n.kind = "Left" ->
                    r_past_root_walk(kn, n.parent,
                                     combine_hash(depth, current_hash, current_hash),
                                     depth + 1, limit)
               [] n.kind = "Right" ->
                    r_past_root_walk(kn, get_node_parent(kn, n.left),
                                     combine_hash(depth, n.hash_of_sibling, current_hash),
                                     depth + 1, limit)
               [] OTHER -> Panic

\* RocksMerkleTree::past_root and SledMerkleTree::past_root
r_past_root(c, kl, kn, D, past_size) ==
    IF num_leaves(c) = 0 \/ past_size > num_leaves(c) \/ past_size = 0 THEN None
    ELSE LET root_depth == depth_at_leaf_count(past_size)
             leaf_index == past_size - 1
             h == kl[leaf_index + 1].hash
             first == IF is_right_leaf(leaf_index)
                      THEN combine_hash(0, kl[leaf_index].hash, h)
                      ELSE combine_hash(0, h, h)
             up == r_past_root_walk(kn, kl[leaf_index + 1].parent, first, 1,
                                    Min(root_depth, stored_depth(D)))
         IN  IF up.tag # "Some" THEN up
             ELSE Some(lift_from(up.val, root_depth, stored_depth(D)))

\* root_hash is past_root(len) in both key/value trees
r_root_hash(c, kl, kn, D) == r_past_root(c, kl, kn, D, num_leaves(c))

\* the loop of witness: depth in 1..stored; yields the path and the folded hash
RECURSIVE r_witness_walk(_, _, _, _, _, _)
r_witness_walk(kn, current_position, current_hash, authentication_path, depth, stored) ==
    IF depth >= stored
    THEN [path |-> authentication_path, hash |-> current_hash, panic |-> FALSE]
    ELSE LET n == get_node(kn, current_position)
         IN  CASE n.kind = "Empty" ->
                    r_witness_walk(kn, current_position,
                        combine_hash(depth, current_hash, current_hash),
                        Append(authentication_path, WLeft(current_hash)), depth + 1, stored)
               [] n.kind = "Left" ->
                    r_witness_walk(kn, n.parent,
                        combine_hash(depth, current_hash, n.hash_of_sibling),
                        Append(authentication_path, WLeft(n.hash_of_sibling)),
                        depth + 1, stored)
               [] n.kind = "Right" ->
                    r_witness_walk(kn, get_node_parent(kn, n.left),
                        combine_hash(depth, n.hash_of_sibling, current_hash),
                        Append(authentication_path, WRight(n.hash_of_sibling)),
                        depth + 1, stored)
               [] OTHER -> [path |-> authentication_path, hash |-> current_hash, panic |-> TRUE]

\* the leaf step of witness followed by the walk
witness_path(c, kl, kn, D, position) ==
    LET h == kl[position + 1].hash
        first_node == IF is_right_leaf(position) THEN WRight(kl[position].hash)
                      ELSE IF position < num_leaves(c) - 1 THEN WLeft(kl[position + 2].hash)
                      ELSE WLeft(h)
        first_hash == IF is_right_leaf(position) THEN combine_hash(0, kl[position].hash, h)
                      ELSE IF position < num_leaves(c) - 1
                      THEN combine_hash(0, h, kl[position + 2].hash)
                      ELSE combine_hash(0, h, h)
    IN  r_witness_walk(kn, kl[position + 1].parent, first_hash, <<first_node>>, 1,
                       stored_depth(D))

\* RocksMerkleTree::witness: the root is taken from root_hash()
r_witness(c, kl, kn, D, position) ==
    IF num_leaves(c) = 0 \/ position >= num_leaves(c) THEN None
    ELSE LET w == witness_path(c, kl, kn, D, position)
             root == r_root_hash(c, kl, kn, D)
         IN  IF w.panic \/ root.tag # "Some" THEN Panic
             ELSE Some(Witness(num_leaves(c), root.val, w.path))

\* variant of the sled witness whose root is the hash of the leaf pair, the
\* value current_hash holds before the walk
s_witness_pair_root(c, kl, kn, D, position) ==
    IF num_leaves(c) = 0 \/ position >= num_leaves(c) THEN None
    ELSE LET w == witness_path(c, kl, kn, D, position)
         IN  IF w.panic THEN Panic
             ELSE Some(Witness(num_leaves(c),
                               verify_fold(<<w.path[1]>>, 0, kl[position + 1].hash), w.path))

\* SledMerkleTree::witness: the root is the hash the walk ends with
s_witness(c, kl, kn, D, position) ==
    IF num_leaves(c) = 0 \/ position >= num_leaves(c) THEN None
    ELSE LET w == witness_path(c, kl, kn, D, position)
         IN  IF w.panic THEN Panic
             ELSE Some(Witness(num_leaves(c), w.hash, w.path))

\* ========================================================== state machine
NoCounters == [k \in {} |-> 0]

\* no public call is under way: an empty call stack and no transaction open
NoCall ==
    [stack |-> <<>>, open |-> FALSE, opened |-> 0, outside |-> 0, seen |-> <<>>,
     same |-> TRUE, blocked |-> FALSE, call |-> [name |-> "none", value |-> 0, position |-> 0]]

\* how many leaves a run adds before it stops adding
LeafBound == IF kv_open THEN KvMaxLeaves ELSE MaxLeaves

\* the trees right after new_with_size(hasher, tree_depth); kv_open tells
\* whether a key/value tree was opened next to the two in-memory trees
Init ==
    /\ tree_depth \in Depths
    /\ kv_open \in BOOLEAN
    /\ vnodes = <<>>
    /\ leaves = <<>>
    /\ nodes = <<Empty>>
    /\ counters = NoCounters
    /\ kv_leaves = <<>>
    /\ kv_nodes = <<>>
    /\ last = [op |-> "new", vpanic |-> FALSE, lpanic |-> FALSE, rpanic |-> FALSE]
    /\ kept = <<>>
    /\ txn = NoCall

\* add(element) on every open tree; a call on a full tree panics
Add(element) ==
    LET v == v_add(vnodes, tree_depth, element)
        l == l_add(leaves, nodes, tree_depth, element)
        r == IF kv_open THEN r_add(counters, kv_leaves, kv_nodes, tree_depth, element)
             ELSE [c |-> counters, kl |-> kv_leaves, kn |-> kv_nodes, panic |-> FALSE]
    IN  /\ l_len(leaves) < LeafBound \/ l_add_full(leaves, tree_depth)
        /\ vnodes' = v.nodes
        /\ leaves' = l.leaves
        /\ nodes' = l.nodes
        /\ counters' = r.c
        /\ kv_leaves' = r.kl
        /\ kv_nodes' = r.kn
        /\ last' = [op |-> "add", vpanic |-> v.panic, lpanic |-> l.panic, rpanic |-> r.panic]
        /\ kept' = IF v.panic THEN kept ELSE Append(kept, element)
        /\ UNCHANGED <<tree_depth, kv_open>>

\* truncate(past_size) on every open tree
Truncate(past_size) ==
    LET l == l_truncate(leaves, nodes, past_size)
        r == IF kv_open THEN r_truncate(counters, kv_leaves, kv_nodes, past_size)
             ELSE [c |-> counters, kl |-> kv_leaves, kn |-> kv_nodes, panic |-> FALSE]
    IN  /\ vnodes' = v_truncate(vnodes, past_size)
        /\ leaves' = l.leaves
        /\ nodes' = l.nodes
        /\ counters' = r.c
        /\ kv_leaves' = r.kl
        /\ kv_nodes' = r.kn
        /\ last' = [op |-> "truncate", vpanic |-> FALSE, lpanic |-> l.panic,
                    rpanic |-> r.panic]
        /\ kept' = Take(kept, Min(past_size, Len(kept)))
        /\ UNCHANGED <<tree_depth, kv_open>>

\* the calls of the methods of the trait that take &self and return a value:
\* each query with the arguments it takes, positions and sizes up to one past
\* the end
Calls ==
    [name : {"len", "iter_notes", "root_hash"}, value : {1}, position : {0}]
        \cup [name : {"contains"}, value : Elements, position : {0}]
        \cup [name : {"get", "past_root", "witness"}, value : {1},
              position : 0..(Len(kept) + 1)]
        \cup [name : {"contained", "verify"}, value : Elements,
              position : 0..(Len(kept) + 1)]

\* what the call returns on the vector tree
v_query(name, value, position) ==
    CASE name = "len" -> Some(v_len(vnodes))
      [] name = "get" -> v_get(vnodes, position)
      [] name = "iter_notes" -> Some(v_iter_notes(vnodes))
      [] name = "root_hash" -> v_root_hash(vnodes, tree_depth)
      [] name = "past_root" -> v_past_root(vnodes, tree_depth, position)
      [] name = "contained" -> Some(v_contained(vnodes, value, position))
      [] name = "contains" -> Some(v_contains(vnodes, value))
      [] name = "witness" -> v_witness(vnodes, tree_depth, position)
      [] OTHER -> LET w == v_witness(vnodes, tree_depth, position)
                  IN  IF w.tag = "Some" THEN Some(verify(w.val, merkle_hash(value))) ELSE w

\* what the call returns on the linked tree, which has neither contained nor
\* witness
l_query(name, value, position) ==
    CASE name = "len" -> Some(l_len(leaves))
      [] name = "get" -> l_get(leaves, position)
      [] name = "iter_notes" -> Some(l_iter_notes(leaves))
      [] name = "root_hash" -> l_root_hash(leaves, nodes, tree_depth)
      [] name = "past_root" -> l_past_root(leaves, nodes, tree_depth, position)
      [] OTHER -> None

\* what the call returns on the key/value tree
r_query(name, value, position) ==
    CASE name = "len" -> Some(r_len(counters))
      [] name = "get" -> r_get(kv_leaves, position)
      [] name = "iter_notes" -> Some(r_iter_notes(counters, kv_leaves))
      [] name = "root_hash" -> r_root_hash(counters, kv_leaves, kv_nodes, tree_depth)
      [] name = "past_root" -> r_past_root(counters, kv_leaves, kv_nodes, tree_depth, position)
      [] name = "contained" -> Some(r_contained(counters, kv_leaves, value, position))
      [] name = "contains" -> Some(r_contains(counters, kv_leaves, value))
      [] name = "witness" -> r_witness(counters, kv_leaves, kv_nodes, tree_depth, position)
      [] OTHER -> LET w == s_witness(counters, kv_leaves, kv_nodes, tree_depth, position)
                  IN  IF w.tag = "Some" THEN Some(verify(w.val, merkle_hash(value))) ELSE w

\* variant of a query that writes: it resets NodeCount to what a new store reads
Query_resetting_counter(name, value, position) ==
    /\ last' = [op |-> "query", vpanic |-> FALSE, lpanic |-> FALSE, rpanic |-> FALSE]
    /\ counters' = IF kv_open THEN set_num_nodes(counters, 0) ELSE counters
    /\ UNCHANGED <<tree_depth, kv_open, vnodes, leaves, nodes, kv_leaves, kv_nodes, kept>>

\* one call of a query on every open tree: the methods read the deque, the
\* vectors and the store and assign nothing; a call may panic
Query(name, value, position) ==
    /\ last' = [op |-> "query",
                vpanic |-> v_query(name, value, position).tag = "Panic",
                lpanic |-> l_query(name, value, position).tag = "Panic",
                rpanic |-> kv_open /\ r_query(name, value, position).tag = "Panic"]
    /\ UNCHANGED <<tree_depth, kv_open, vnodes, leaves, nodes, counters, kv_leaves, kv_nodes,
                   kept>>

Next ==
    \/ \E element \in Elements : Add(element) /\ UNCHANGED txn
    \/ \E past_size \in 0..(LeafBound + 1) : Truncate(past_size) /\ UNCHANGED txn
    \/ \E call \in Calls : Query(call.name, call.value, call.position) /\ UNCHANGED txn

Spec == Init /\ [][Next]_vars

\* ========================================================== serialisation
\* variant of the length encoding with the bytes in big-endian order
u32_be(n) == <<(n \div 16777216) % 256, (n \div 65536) % 256, (n \div 256) % 256, n % 256>>

\* write_u32::<LittleEndian> / read_u32::<LittleEndian>
u32_le(n) == <<n % 256, (n \div 256) % 256, (n \div 65536) % 256, (n \div 16777216) % 256>>

from_u32_le(b) == b[1] + 256 * b[2] + 65536 * b[3] + 16777216 * b[4]

\* the elements are the one-letter strings "a", "b", ...: element e is the
\* string of the byte 96 + e; a string read back is the element its bytes spell
RECURSIVE string_element(_)
string_element(bytes) ==
    IF Len(bytes) = 0 THEN 0
    ELSE (bytes[1] - 96) + 256 * string_element(Tail(bytes))

\* String::write: the length as one byte, then the bytes
write_element(e) == <<1, 96 + e>>

\* StringHasher::read_element at the 1-based offset pos of the stream: the
\* length byte (an error at the end of the stream), then as many bytes as the
\* stream still has up to that length, rejected if they are not UTF-8 (the
\* streams read here hold ASCII letters and the byte 255)
read_element(stream, pos) ==
    IF pos > Len(stream) THEN [tag |-> "Err", val |-> 0, next |-> pos]
    ELSE LET str_size == stream[pos]
             taken == Min(str_size, Len(stream) - pos)
             bytes == SubSeq(stream, pos + 1, pos + taken)
         IN  IF \E i \in 1..Len(bytes) : bytes[i] >= 128
             THEN [tag |-> "Err", val |-> 0, next |-> pos]
             ELSE [tag |-> "Ok", val |-> string_element(bytes), next |-> pos + 1 + taken]

RECURSIVE write_elements(_)
write_elements(elements) ==
    IF Len(elements) = 0 THEN <<>>
    ELSE write_element(Head(elements)) \o write_elements(Tail(elements))

\* VectorMerkleTree::write: tree_depth as u8, len as u32, then every element
v_write(ns, D) == <<D % 256>> \o u32_le(v_len(ns)) \o write_elements(v_iter_notes(ns))

\* the loop of VectorMerkleTree::read: decode an element, add it
RECURSIVE v_read_loop(_, _, _, _, _)
v_read_loop(stream, pos, remaining, ns, D) ==
    IF remaining = 0 THEN [tag |-> "Ok", tree_depth |-> D, nodes |-> ns]
    ELSE LET e == read_element(stream, pos)
             a == v_add(ns, D, e.val)
         IN  IF e.tag = "Err" THEN [tag |-> "Err", tree_depth |-> D, nodes |-> <<>>]
             ELSE IF a.panic THEN [tag |-> "Panic", tree_depth |-> D, nodes |-> <<>>]
             ELSE v_read_loop(stream, e.next, remaining - 1, a.nodes, D)

\* VectorMerkleTree::read
v_read(stream) ==
    IF Len(stream) < 5 THEN [tag |-> "Err", tree_depth |-> 0, nodes |-> <<>>]
    ELSE v_read_loop(stream, 6, from_u32_le(SubSeq(stream, 2, 5)), <<>>, stream[1])

\* RocksMerkleTree::write / SledMerkleTree::write: nothing is written
r_write(c, kl, kn, D) == <<>>

\* RocksMerkleTree::read / SledMerkleTree::read: unimplemented!()
r_read(stream) == [tag |-> "Panic", tree_depth |-> 0, nodes |-> <<>>]

\* streams that end early: the proper prefixes of a written stream
EndsEarly(w) == {Take(w, n) : n \in 0..(Len(w) - 1)}

\* streams with an element the codec rejects: the last byte is not UTF-8
Rejected(w) == IF Len(w) > 5 THEN {[w EXCEPT ![Len(w)] = 255]} ELSE {}

\* streams whose leaf count is larger than the capacity of the encoded depth:
\* the encoded depth lowered below what the leaves need
OverCapacity(w) ==
    {[w EXCEPT ![1] = d] :
        d \in {c \in 1..(w[1] - 1) : from_u32_le(SubSeq(w, 2, 5)) > Pow2(c - 1)}}

\* what a caller hands to read: the bytes write produced for the tree as it
\* is, and the malformed variants of them
Streams ==
    LET w == v_write(vnodes, tree_depth)
    IN  {w} \cup EndsEarly(w) \cup Rejected(w) \cup OverCapacity(w)

\* read(hasher, stream): builds a new tree and hands it, or an error, to the
\* caller; the trees that exist are not touched
Read(stream) ==
    LET v == v_read(stream)
        r == r_read(stream)
    IN  /\ last' = [op |-> IF v.tag = "Err" THEN "read_err" ELSE "read",
                    vpanic |-> v.tag = "Panic", lpanic |-> FALSE,
                    rpanic |-> kv_open /\ r.tag = "Panic"]
        /\ UNCHANGED <<tree_depth, kv_open, vnodes, leaves, nodes, counters, kv_leaves,
                       kv_nodes, kept>>

SerNext ==
    \/ \E element \in Elements : Add(element) /\ UNCHANGED txn
    \/ \E past_size \in 0..(LeafBound + 1) : Truncate(past_size) /\ UNCHANGED txn
    \/ \E stream \in Streams : Read(stream) /\ UNCHANGED txn

SerSpec == Init /\ [][SerNext]_vars

\* ================================================= interrupted operations
\* one put of the RocksDB store: the record written, its index and its value
Put(rec, index, value) == [rec |-> rec, index |-> index, value |-> value]

\* the element of a leaf whose LeafElement record has not been written
NoElement == 0

Store(c, kl, kn) == [c |-> c, kl |-> kl, kn |-> kn]

\* the store after one put; the LeafData record and the LeafElement record of a
\* leaf are written one after the other
apply_put(s, w) ==
    CASE w.rec = "LeafCount" -> [s EXCEPT !.c = set_num_leaves(s.c, w.value)]
      [] w.rec = "NodeCount" -> [s EXCEPT !.c = set_num_nodes(s.c, w.value)]
      [] w.rec = "Node" -> [s EXCEPT !.kn = kv_set_node(s.kn, w.index, w.value)]
      [] w.rec = "LeafData" ->
            [s EXCEPT !.kl = set_leaf(s.kl, w.index,
                                      KvLeaf(IF has_leaf(s.kl, w.index)
                                             THEN s.kl[w.index + 1].element ELSE NoElement,
                                             w.value.parent, w.value.hash))]
      [] OTHER -> [s EXCEPT !.kl = set_leaf(s.kl, w.index,
                                            [s.kl[w.index + 1] EXCEPT !.element = w.value])]

RECURSIVE apply_puts(_, _)
apply_puts(s, puts) ==
    IF puts = <<>> THEN s ELSE apply_puts(apply_put(s, puts[1]), Drop(puts, 1))

\* the set_node calls of RocksMerkleTree::rehash_right_path, in order
RECURSIVE r_rehash_puts(_, _, _, _)
r_rehash_puts(kn, parent_idx, parent_hash, depth) ==
    LET node == get_node(kn, parent_idx)
        d == depth + 1
    IN  CASE node.kind = "Left" ->
                LET n == Left(node.parent, parent_hash)
                IN  <<Put("Node", parent_idx, n)>>
                        \o r_rehash_puts(kv_set_node(kn, parent_idx, n), node.parent,
                                         combine_hash(d, parent_hash, parent_hash), d)
          [] node.kind = "Right" /\ get_node(kn, node.left).kind # "OutOfRange" ->
                LET n == Left(get_node_parent(kn, node.left), parent_hash)
                IN  <<Put("Node", node.left, n)>>
                        \o r_rehash_puts(kv_set_node(kn, node.left, n),
                                         get_node_parent(kn, node.left),
                                         combine_hash(d, node.hash_of_sibling, parent_hash), d)
          [] OTHER -> <<>>

r_rehash_right_path_puts(s) ==
    LET leaf_index == num_leaves(s.c) - 1
        leaf == s.kl[leaf_index + 1]
        parent_hash == IF is_right_leaf(leaf_index)
                       THEN combine_hash(0, s.kl[leaf_index].hash, leaf.hash)
                       ELSE combine_hash(0, leaf.hash, leaf.hash)
    IN  IF ~has_leaf(s.kl, leaf_index) THEN <<>>
        ELSE r_rehash_puts(s.kn, leaf.parent, parent_hash, 0)

\* the set_node and set_num_nodes calls of the walk of add, in order
RECURSIVE r_add_walk_puts(_, _, _, _, _)
r_add_walk_puts(kn, next_node_index, previous_parent_index, my_hash, depth) ==
    LET previous_parent == get_node(kn, previous_parent_index)
    IN  CASE previous_parent.kind = "Left" ->
                <<Put("Node", next_node_index,
                      Right(previous_parent_index, previous_parent.hash_of_sibling)),
                  Put("NodeCount", 0, next_node_index + 1)>>
                \o IF previous_parent.parent = 0
                   THEN <<Put("Node", next_node_index + 1,
                              Left(0, combine_hash(depth, previous_parent.hash_of_sibling,
                                                   my_hash))),
                          Put("Node", previous_parent_index,
                              Left(next_node_index + 1, previous_parent.hash_of_sibling)),
                          Put("NodeCount", 0, next_node_index + 2)>>
                   ELSE <<>>
          [] previous_parent.kind = "Right" ->
                LET hashed == combine_hash(depth, my_hash, my_hash)
                    n == Left(next_node_index + 1, hashed)
                IN  <<Put("Node", next_node_index, n), Put("NodeCount", 0, next_node_index + 1)>>
                        \o r_add_walk_puts(kv_set_node(kn, next_node_index, n),
                                           next_node_index + 1,
                                           get_node_parent(kn, previous_parent.left),
                                           hashed, depth + 1)
          [] OTHER -> <<>>

\* the puts of RocksMerkleTree::add that precede rehash_right_path, in order
r_add_link_puts(s, element) ==
    LET index_of_new_leaf == num_leaves(s.c)
        leaf_hash == merkle_hash(element)
        g == r_add_linked(s.c, s.kl, s.kn, element)
        linking ==
            IF index_of_new_leaf = 1
            THEN <<Put("NodeCount", 0, 2),
                   Put("Node", 1, Left(0, combine_hash(0, s.kl[1].hash, leaf_hash))),
                   Put("LeafData", 0, [parent |-> 1, hash |-> s.kl[1].hash])>>
            ELSE IF index_of_new_leaf = 0 \/ is_right_leaf(index_of_new_leaf) THEN <<>>
            ELSE r_add_walk_puts(s.kn, num_nodes(s.c), s.kl[index_of_new_leaf].parent,
                                 combine_hash(0, leaf_hash, leaf_hash), 1)
    IN  IF g.panic THEN <<>>
        ELSE linking \o <<Put("LeafCount", 0, index_of_new_leaf + 1),
                          Put("LeafData", index_of_new_leaf,
                              [parent |-> g.parent, hash |-> leaf_hash]),
                          Put("LeafElement", index_of_new_leaf, element)>>

\* every put of RocksMerkleTree::add, in program order
r_add_puts(s, D, element) ==
    IF r_add_full(s.c, D) THEN <<>>
    ELSE LET link == r_add_link_puts(s, element)
         IN  IF link = <<>> THEN <<>>
             ELSE link \o r_rehash_right_path_puts(apply_puts(s, link))

\* every put of RocksMerkleTree::truncate, in program order
r_truncate_puts(s, past_size) ==
    IF past_size >= num_leaves(s.c) THEN <<>>
    ELSE IF past_size = 0 THEN <<Put("LeafCount", 0, 0), Put("NodeCount", 0, 1)>>
    ELSE IF past_size = 1
    THEN <<Put("LeafCount", 0, 1), Put("LeafData", 0, [parent |-> 0, hash |-> s.kl[1].hash]),
           Put("NodeCount", 0, 1)>>
    ELSE LET depth == depth_at_leaf_count(past_size) - 2
             w == r_truncate_walk(s.kn, s.kl[past_size].parent, s.kl[past_size].parent, depth)
             top == get_node(s.kn, w.parent)
             head == <<Put("LeafCount", 0, past_size)>>
             cut == head \o <<Put("Node", w.parent, Left(0, top.hash_of_sibling)),
                              Put("NodeCount", 0, w.max_parent + 1)>>
         IN  IF w.panic \/ top.kind # "Left" THEN head
             ELSE cut \o r_rehash_right_path_puts(apply_puts(s, cut))

\* the store of the RocksDB tree
RocksStore == Store(counters, kv_leaves, kv_nodes)

\* the process has stopped in the middle of an operation
Stopped == last.op \in {"add_interrupted", "truncate_interrupted"}

\* the process stops after the first k puts of an operation and before the
\* next: every put went to the database by itself, so the first k stay
Interrupted(op, puts, k) ==
    LET s == apply_puts(RocksStore, Take(puts, k))
    IN  /\ kv_open
        /\ ~Stopped
        /\ k >= 1
        /\ k < Len(puts)
        /\ counters' = s.c
        /\ kv_leaves' = s.kl
        /\ kv_nodes' = s.kn
        /\ last' = [op |-> op, vpanic |-> FALSE, lpanic |-> FALSE, rpanic |-> FALSE]
        /\ UNCHANGED <<tree_depth, kv_open, vnodes, leaves, nodes, kept>>

\* the longest run of puts an operation makes within the bounds
MaxPuts == 3 * MaxDepth + 6

AddInterrupted(element, k) ==
    /\ num_leaves(counters) < KvMaxLeaves
    /\ Interrupted("add_interrupted", r_add_puts(RocksStore, tree_depth, element), k)

TruncateInterrupted(past_size, k) ==
    Interrupted("truncate_interrupted", r_truncate_puts(RocksStore, past_size), k)

CrashNext ==
    \/ \E element \in Elements : ~Stopped /\ Add(element) /\ UNCHANGED txn
    \/ \E past_size \in 0..(LeafBound + 1) : ~Stopped /\ Truncate(past_size) /\ UNCHANGED txn
    \/ \E element \in Elements, k \in 1..MaxPuts :
          AddInterrupted(element, k) /\ UNCHANGED txn
    \/ \E past_size \in 0..KvMaxLeaves, k \in 1..MaxPuts :
          TruncateInterrupted(past_size, k) /\ UNCHANGED txn

CrashSpec == Init /\ [][CrashNext]_vars

\* ================================================= SledMerkleTree calls
\* one instruction of a method body
Ins(do, name) == [do |-> do, name |-> name]

\* the closure handed to (&counters, &leaves, &nodes).transaction: the
\* transaction opens, the closure reads and writes through its Sledder, the
\* transaction commits
in_transaction(closure) == <<Ins("begin", "")>> \o closure \o <<Ins("commit", "")>>

\* variant in which get reads the leaves tree without a transaction
sled_body_get_direct(name) ==
    CASE name = "get" -> <<Ins("access", "")>>
      [] name \in {"add", "truncate"} ->
            in_transaction(<<Ins("access", ""), Ins("call", "rehash_right_path")>>)
      [] name \in {"rehash_right_path", "iter_notes"} -> <<Ins("access", "")>>
      [] name = "root_hash" -> <<Ins("call", "len"), Ins("call", "past_root")>>
      [] name = "contained" -> <<Ins("call", "iter_notes")>>
      [] name = "contains" -> <<Ins("call", "len"), Ins("call", "contained")>>
      [] OTHER -> in_transaction(<<Ins("access", "")>>)

\* variant in which witness takes its root from self.root_hash() inside its
\* transaction
sled_body_witness_calls_root_hash(name) ==
    CASE name = "witness" -> in_transaction(<<Ins("access", ""), Ins("call", "root_hash")>>)
      [] name \in {"add", "truncate"} ->
            in_transaction(<<Ins("access", ""), Ins("call", "rehash_right_path")>>)
      [] name \in {"rehash_right_path", "iter_notes"} -> <<Ins("access", "")>>
      [] name = "root_hash" -> <<Ins("call", "len"), Ins("call", "past_root")>>
      [] name = "contained" -> <<Ins("call", "iter_notes")>>
      [] name = "contains" -> <<Ins("call", "len"), Ins("call", "contained")>>
      [] OTHER -> in_transaction(<<Ins("access", "")>>)

\* the bodies of the methods of SledMerkleTree: add and truncate end their
\* closure with rehash_right_path(&sledder), which uses the Sledder it is
\* handed; iter_notes reads the counters and leaves trees directly; root_hash
\* is past_root(len()), contained scans iter_notes(), contains is
\* contained(value, len()); len, get, past_root and witness are one closure
sled_body(name) ==
    CASE name \in {"add", "truncate"} ->
            in_transaction(<<Ins("access", ""), Ins("call", "rehash_right_path")>>)
      [] name \in {"rehash_right_path", "iter_notes"} -> <<Ins("access", "")>>
      [] name = "root_hash" -> <<Ins("call", "len"), Ins("call", "past_root")>>
      [] name = "contained" -> <<Ins("call", "iter_notes")>>
      [] name = "contains" -> <<Ins("call", "len"), Ins("call", "contained")>>
      [] OTHER -> in_transaction(<<Ins("access", "")>>)

\* the public methods, each with the arguments it takes
SledCalls ==
    [name : {"len", "iter_notes", "root_hash"}, value : {1}, position : {0}]
        \cup [name : {"add", "contains"}, value : Elements, position : {0}]
        \cup [name : {"get", "past_root", "witness", "truncate"}, value : {1},
              position : 0..(Len(kept) + 1)]
        \cup [name : {"contained"}, value : Elements, position : 0..(Len(kept) + 1)]

Frame(name, pc) == [name |-> name, pc |-> pc]

\* the frame on top of the call stack and the instruction it is at
top_frame == txn.stack[Len(txn.stack)]

at_end == top_frame.pc > Len(sled_body(top_frame.name))

next_ins == sled_body(top_frame.name)[top_frame.pc]

running == txn.stack # <<>> /\ ~txn.blocked

\* the stack once the top frame has moved past its instruction
advanced == [txn.stack EXCEPT ![Len(txn.stack)].pc = top_frame.pc + 1]

\* the host calls a public method; one caller at a time, so only when no call
\* is under way
Call(c) ==
    /\ kv_open
    /\ txn.stack = <<>>
    /\ c.name = "add" => num_leaves(counters) < KvMaxLeaves \/ r_add_full(counters, tree_depth)
    /\ txn' = [NoCall EXCEPT !.stack = <<Frame(c.name, 1)>>, !.call = c]
    /\ UNCHANGED <<tree_depth, kv_open, vnodes, leaves, nodes, counters, kv_leaves, kv_nodes,
                   last, kept>>

\* .transaction(..): the transaction is not reentrant, so a method that opens
\* one while one is open waits for ever
Begin ==
    /\ running
    /\ ~at_end
    /\ next_ins.do = "begin"
    /\ txn' = IF txn.open THEN [txn EXCEPT !.blocked = TRUE]
                ELSE [txn EXCEPT !.stack = advanced, !.open = TRUE, !.opened = txn.opened + 1]
    /\ UNCHANGED <<tree_depth, kv_open, vnodes, leaves, nodes, counters, kv_leaves, kv_nodes,
                   last, kept>>

\* the reads and writes of a body: inside the open transaction, or straight on
\* the trees of the database when none is open
Access ==
    /\ running
    /\ ~at_end
    /\ next_ins.do = "access"
    /\ txn' = [txn EXCEPT !.stack = advanced,
                           !.outside = IF txn.open THEN txn.outside ELSE txn.outside + 1,
                           !.seen = <<RocksStore>>,
                           !.same = txn.same /\ txn.seen \in {<<>>, <<RocksStore>>}]
    /\ UNCHANGED <<tree_depth, kv_open, vnodes, leaves, nodes, counters, kv_leaves, kv_nodes,
                   last, kept>>

\* a method calls another method or a helper on the same tree
Enter ==
    /\ running
    /\ ~at_end
    /\ next_ins.do = "call"
    /\ txn' = [txn EXCEPT !.stack = Append(advanced, Frame(next_ins.name, 1))]
    /\ UNCHANGED <<tree_depth, kv_open, vnodes, leaves, nodes, counters, kv_leaves, kv_nodes,
                   last, kept>>

\* the closure returns Ok: the transaction commits, and the writes of add and
\* truncate reach the trees
Commit ==
    /\ running
    /\ ~at_end
    /\ next_ins.do = "commit"
    /\ txn' = [txn EXCEPT !.stack = advanced, !.open = FALSE]
    /\ CASE top_frame.name = "add" -> Add(txn.call.value)
          [] top_frame.name = "truncate" -> Truncate(txn.call.position)
          [] OTHER -> UNCHANGED <<tree_depth, kv_open, vnodes, leaves, nodes, counters,
                                  kv_leaves, kv_nodes, last, kept>>

\* a method returns; the return of a query to the host hands back its value
Return ==
    /\ running
    /\ at_end
    /\ txn' = [txn EXCEPT !.stack = Take(txn.stack, Len(txn.stack) - 1)]
    /\ IF Len(txn.stack) = 1 /\ txn.call.name \notin {"add", "truncate"}
       THEN Query(txn.call.name, txn.call.value, txn.call.position)
       ELSE UNCHANGED <<tree_depth, kv_open, vnodes, leaves, nodes, counters, kv_leaves,
                        kv_nodes, last, kept>>

TxnNext ==
    \/ \E c \in SledCalls : Call(c)
    \/ Begin
    \/ Access
    \/ Enter
    \/ Commit
    \/ Return

TxnSpec == Init /\ [][TxnNext]_vars

\* ============================================================ properties
\* hashes of the leaves each tree currently holds, in position order
VHashes == [i \in 1..v_len(vnodes) |-> merkle_hash(v_iter_notes(vnodes)[i])]
LHashes == [i \in 1..l_len(leaves) |-> merkle_hash(leaves[i].element)]
RHashes == [i \in 1..r_len(counters) |-> kv_leaves[i].hash]

\* hashes a caller may hand to verify instead of the leaf's own
CandidateHashes ==
    {merkle_hash(e) : e \in Elements}
        \cup {combine_hash(0, merkle_hash(a), merkle_hash(b)) : a, b \in Elements}

\* one level of the reference tree: neighbours are paired, a hash without a
\* right neighbour is paired with itself
pair_level(hs, depth) ==
    [j \in 1..((Len(hs) + 1) \div 2) |->
        combine_hash(depth, hs[2 * j - 1],
                     IF 2 * j <= Len(hs) THEN hs[2 * j] ELSE hs[2 * j - 1])]

\* the reference root of a tree of depth D: D - 1 levels of pairing over the leaves
RECURSIVE reference_root(_, _, _)
reference_root(hs, depth, D) ==
    IF depth >= D - 1 THEN hs[1] ELSE reference_root(pair_level(hs, depth), depth + 1, D)

reference(hs, D) == IF Len(hs) = 0 THEN None ELSE Some(reference_root(hs, 0, D))

\* ---------------------------------------------------------------------- C1
\* C1: in every state reached by add and truncate, for every position p < len
\* witness(p) is Some(w), w.verify accepts the hash of leaf p and, combine_hash
\* being injective, rejects every other hash. Checked for the vector witness,
\* the rocks witness and the sled witness.
C1_WitnessVerifies ==
    /\ \A p \in 0..(v_len(vnodes) - 1) :
          LET w == v_witness(vnodes, tree_depth, p)
          IN  /\ w.tag = "Some"
              /\ verify(w.val, VHashes[p + 1])
              /\ \A g \in CandidateHashes \ {VHashes[p + 1]} : ~verify(w.val, g)
    /\ kv_open => \A p \in 0..(r_len(counters) - 1) :
          LET w == r_witness(counters, kv_leaves, kv_nodes, tree_depth, p)
              s == s_witness(counters, kv_leaves, kv_nodes, tree_depth, p)
          IN  /\ w.tag = "Some"
              /\ verify(w.val, RHashes[p + 1])
              /\ \A g \in CandidateHashes \ {RHashes[p + 1]} : ~verify(w.val, g)
              /\ s.tag = "Some"
              /\ verify(s.val, RHashes[p + 1])
              /\ \A g \in CandidateHashes \ {RHashes[p + 1]} : ~verify(s.val, g)

\* a tree of three leaves below its capacity whose last leaf has a verifying
\* witness in the vector and in the key/value embodiment
C1_Witness ==
    /\ kv_open
    /\ tree_depth >= 3
    /\ r_len(counters) = 3
    /\ v_len(vnodes) = 3
    /\ verify(v_witness(vnodes, tree_depth, 2).val, VHashes[3])
    /\ verify(r_witness(counters, kv_leaves, kv_nodes, tree_depth, 2).val, RHashes[3])

\* ---------------------------------------------------------------------- C2
\* C2: root_hash() is None iff the tree is empty, and otherwise equals the
\* reference root of the current leaves on a tree of depth D padded by
\* self-pairing, in every embodiment.
C2_RootIsReferenceRoot ==
    /\ v_root_hash(vnodes, tree_depth) = reference(VHashes, tree_depth)
    /\ l_root_hash(leaves, nodes, tree_depth) = reference(LHashes, tree_depth)
    /\ kv_open => r_root_hash(counters, kv_leaves, kv_nodes, tree_depth)
                      = reference(RHashes, tree_depth)

\* ---------------------------------------------------------------------- C3
\* C3: past_root(k) is None exactly when k = 0 or k > len and Some hash for
\* 1 <= k <= len, in every embodiment; past_root(0) on a non-empty tree is None.
C3_PastRootNoneIff ==
    \A k \in 0..(l_len(leaves) + 1) :
        /\ v_past_root(vnodes, tree_depth, k).tag
              = (IF k = 0 \/ k > v_len(vnodes) THEN "None" ELSE "Some")
        /\ l_past_root(leaves, nodes, tree_depth, k).tag
              = (IF k = 0 \/ k > l_len(leaves) THEN "None" ELSE "Some")
        /\ kv_open => r_past_root(counters, kv_leaves, kv_nodes, tree_depth, k).tag
                          = (IF k = 0 \/ k > r_len(counters) THEN "None" ELSE "Some")

\* ---------------------------------------------------------------------- C4
\* C4: on a non-empty tree past_root(len) equals root_hash(): the walk up from
\* the rightmost leaf and the walk up the leftmost path give the same hash.
C4_PastRootOfLenIsRoot ==
    /\ v_len(vnodes) > 0 =>
          v_past_root(vnodes, tree_depth, v_len(vnodes)) = v_root_hash(vnodes, tree_depth)
    /\ l_len(leaves) > 0 =>
          l_past_root(leaves, nodes, tree_depth, l_len(leaves))
              = l_root_hash(leaves, nodes, tree_depth)
    /\ kv_open /\ r_len(counters) > 0 =>
          r_past_root(counters, kv_leaves, kv_nodes, tree_depth, r_len(counters))
              = r_root_hash(counters, kv_leaves, kv_nodes, tree_depth)

\* ---------------------------------------------------------------------- C5
\* C5: for 1 <= k <= len, what past_root(k) returns before truncate(k) is what
\* root_hash() returns after it. A truncate step leaves k = len' leaves.
C5_PastRootIsRootAfterTruncate ==
    [][last'.op = "truncate" /\ l_len(leaves') >= 1 =>
          /\ v_past_root(vnodes, tree_depth, l_len(leaves')) = v_root_hash(vnodes', tree_depth)
          /\ l_past_root(leaves, nodes, tree_depth, l_len(leaves'))
                = l_root_hash(leaves', nodes', tree_depth)
          /\ kv_open => r_past_root(counters, kv_leaves, kv_nodes, tree_depth, l_len(leaves'))
                            = r_root_hash(counters', kv_leaves', kv_nodes', tree_depth)]_vars

\* ---------------------------------------------------------------------- C6
\* make_tree of the tests: a fresh tree of depth D to which s is added in order
RECURSIVE l_build(_, _)
l_build(s, D) ==
    IF Len(s) = 0 THEN [leaves |-> <<>>, nodes |-> <<Empty>>, panic |-> FALSE]
    ELSE LET t == l_build(Take(s, Len(s) - 1), D)
         IN  l_add(t.leaves, t.nodes, D, s[Len(s)])

RECURSIVE r_build(_, _)
r_build(s, D) ==
    IF Len(s) = 0 THEN [c |-> NoCounters, kl |-> <<>>, kn |-> <<>>, panic |-> FALSE]
    ELSE LET t == r_build(Take(s, Len(s) - 1), D)
         IN  r_add(t.c, t.kl, t.kn, D, s[Len(s)])

C7_CapacityIsTwoToDMinusOne ==
    [][/\ l_len(leaves) <= Pow2(tree_depth - 1)
       /\ v_len(vnodes) <= Pow2(tree_depth - 1)
       /\ r_len(counters) <= Pow2(tree_depth - 1)
       /\ last'.op = "add" =>
            /\ last'.lpanic <=> l_len(leaves) = Pow2(tree_depth - 1)
            /\ last'.vpanic <=> v_len(vnodes) = Pow2(tree_depth - 1)
            /\ kv_open => (last'.rpanic <=> r_len(counters) = Pow2(tree_depth - 1))
            /\ ~last'.lpanic => l_len(leaves') = l_len(leaves) + 1
            /\ ~last'.vpanic => v_len(vnodes') = v_len(vnodes) + 1
            /\ kv_open /\ ~last'.rpanic => r_len(counters') = r_len(counters) + 1]_vars

\* an add that panicked on a tree of depth 3 holding 2^2 leaves
C7_Witness ==
    /\ last.op = "add"
    /\ last.lpanic
    /\ last.vpanic
    /\ tree_depth = 3
    /\ l_len(leaves) = 4
    /\ v_len(vnodes) = 4

\* C7 as stated: add succeeds whenever len < 2^D and panics when len = 2^D.
C7_CapacityIsTwoToD ==
    [][last'.op = "add" =>
            /\ last'.lpanic <=> l_len(leaves) = Pow2(tree_depth)
            /\ last'.vpanic <=> v_len(vnodes) = Pow2(tree_depth)
            /\ kv_open => (last'.rpanic <=> r_len(counters) = Pow2(tree_depth))]_vars

\* ---------------------------------------------------------------------- C8
\* C8: an add that fails because the tree is full writes nothing: the leaves,
\* the internal nodes and the counters are what they were, and so are the
\* results of len, get, root_hash, past_root and witness.
C8_FailedAddLeavesTreeUntouched ==
    [][last'.op = "add" =>
          /\ last'.vpanic =>
                /\ vnodes' = vnodes
                /\ v_len(vnodes') = v_len(vnodes)
                /\ v_root_hash(vnodes', tree_depth) = v_root_hash(vnodes, tree_depth)
                /\ \A p \in 0..MaxLeaves :
                      /\ v_get(vnodes', p) = v_get(vnodes, p)
                      /\ v_witness(vnodes', tree_depth, p) = v_witness(vnodes, tree_depth, p)
                /\ \A k \in 1..(MaxLeaves + 1) :
                      v_past_root(vnodes', tree_depth, k) = v_past_root(vnodes, tree_depth, k)
          /\ last'.lpanic =>
                /\ leaves' = leaves
                /\ nodes' = nodes
          /\ last'.rpanic =>
                /\ counters' = counters
                /\ kv_leaves' = kv_leaves
                /\ kv_nodes' = kv_nodes]_vars

\* an add that panicked in all three embodiments of a full tree of two leaves
C8_Witness ==
    /\ last.op = "add"
    /\ last.vpanic
    /\ last.lpanic
    /\ last.rpanic
    /\ kv_open
    /\ tree_depth = 2
    /\ r_len(counters) = 2

\* ---------------------------------------------------------------------- C9
\* C9: for every position p < len, witness(p).root_hash is what root_hash()
\* returns and witness(p).tree_size is what len() returns in the same state,
\* where the witness takes its root from root_hash() (vector, rocks) and where
\* it continues the fold of the authentication path to the top (sled).
C9_WitnessRootAndSize ==
    /\ \A p \in 0..(v_len(vnodes) - 1) :
          LET w == v_witness(vnodes, tree_depth, p)
          IN  /\ w.tag = "Some"
              /\ Some(w.val.root_hash) = v_root_hash(vnodes, tree_depth)
              /\ w.val.tree_size = v_len(vnodes)
    /\ kv_open => \A p \in 0..(r_len(counters) - 1) :
          LET w == r_witness(counters, kv_leaves, kv_nodes, tree_depth, p)
              s == s_witness(counters, kv_leaves, kv_nodes, tree_depth, p)
          IN  /\ w.tag = "Some"
              /\ Some(w.val.root_hash) = r_root_hash(counters, kv_leaves, kv_nodes, tree_depth)
              /\ w.val.tree_size = r_len(counters)
              /\ s.tag = "Some"
              /\ Some(s.val.root_hash) = r_root_hash(counters, kv_leaves, kv_nodes, tree_depth)
              /\ s.val.tree_size = r_len(counters)

\* a key/value tree of depth 4 cut back to two leaves: the fold of the sled
\* witness of leaf 0 runs through stored and padded levels and ends in the root
C9_Witness ==
    /\ kv_open
    /\ tree_depth = 4
    /\ last.op = "truncate"
    /\ r_len(counters) = 2
    /\ Len(kv_leaves) = 3
    /\ Some(s_witness(counters, kv_leaves, kv_nodes, tree_depth, 0).val.root_hash)
          = r_root_hash(counters, kv_leaves, kv_nodes, tree_depth)

\* --------------------------------------------------------------------- C10
\* C10: witness(p) is None iff p >= len; otherwise its auth_path has exactly
\* D - 1 entries whatever the number of leaves, for every depth D the
\* constructor accepts, and no entry of the path is the root hash.
C10_WitnessPathLength ==
    \A p \in 0..(l_len(leaves) + 1) :
        LET v == v_witness(vnodes, tree_depth, p)
            w == r_witness(counters, kv_leaves, kv_nodes, tree_depth, p)
            s == s_witness(counters, kv_leaves, kv_nodes, tree_depth, p)
        IN  /\ IF p >= v_len(vnodes) THEN v = None
               ELSE /\ v.tag = "Some"
                    /\ Len(v.val.auth_path) = tree_depth - 1
                    /\ \A i \in 1..Len(v.val.auth_path) :
                          v.val.auth_path[i].hash # v.val.root_hash
            /\ kv_open =>
                  IF p >= r_len(counters) THEN w = None /\ s = None
                  ELSE /\ w.tag = "Some"
                       /\ Len(w.val.auth_path) = tree_depth - 1
                       /\ \A i \in 1..Len(w.val.auth_path) :
                             w.val.auth_path[i].hash # w.val.root_hash
                       /\ s.tag = "Some"
                       /\ Len(s.val.auth_path) = tree_depth - 1
                       /\ \A i \in 1..Len(s.val.auth_path) :
                             s.val.auth_path[i].hash # s.val.root_hash

\* --------------------------------------------------------------------- C11
\* C11: after any sequence of add and truncate, get(pos) returns the element
\* at position pos when pos < len and None when pos >= len; in particular a
\* position removed by a truncate is not present afterwards, also in the
\* key/value trees, which leave the old leaf record in the store.
C11_GetReturnsElementAtPosition ==
    \A pos \in 0..(LeafBound + 1) :
        LET expected == IF pos < Len(kept) THEN Some(kept[pos + 1]) ELSE None
        IN  /\ v_get(vnodes, pos) = expected
            /\ l_get(leaves, pos) = expected
            /\ kv_open => r_get(kv_leaves, pos) = expected

\* the same for the two in-memory trees alone
C11_GetInMemory ==
    \A pos \in 0..(LeafBound + 1) :
        LET expected == IF pos < Len(kept) THEN Some(kept[pos + 1]) ELSE None
        IN  /\ v_get(vnodes, pos) = expected
            /\ l_get(leaves, pos) = expected

\* the same for the key/value tree at the positions below len
C11_GetKvBelowLen ==
    kv_open => \A pos \in 0..(Len(kept) - 1) :
        r_get(kv_leaves, pos) = Some(kept[pos + 1])

\* --------------------------------------------------------------------- C12
\* C12: past roots are stable under growth. Whenever root_hash() returns r
\* while the tree holds k >= 1 leaves, past_root(k) returns r in that state,
\* and every later add or truncate that keeps at least k leaves leaves the
\* answer of past_root(k) as it was; so past_root(k) still returns r after
\* any number of further adds.
C12_PastRootsStableUnderGrowth ==
    [][last'.op \in {"add", "truncate"} =>
       /\ v_root_hash(vnodes, tree_depth).tag = "Some" =>
              v_past_root(vnodes, tree_depth, v_len(vnodes)) = v_root_hash(vnodes, tree_depth)
       /\ l_root_hash(leaves, nodes, tree_depth).tag = "Some" =>
              l_past_root(leaves, nodes, tree_depth, l_len(leaves))
                  = l_root_hash(leaves, nodes, tree_depth)
       /\ kv_open /\ r_root_hash(counters, kv_leaves, kv_nodes, tree_depth).tag = "Some" =>
              r_past_root(counters, kv_leaves, kv_nodes, tree_depth, r_len(counters))
                  = r_root_hash(counters, kv_leaves, kv_nodes, tree_depth)
       /\ \A k \in 1..Min(Len(kept), Len(kept')) :
              /\ v_past_root(vnodes', tree_depth, k) = v_past_root(vnodes, tree_depth, k)
              /\ l_past_root(leaves', nodes', tree_depth, k)
                    = l_past_root(leaves, nodes, tree_depth, k)
              /\ kv_open =>
                    r_past_root(counters', kv_leaves', kv_nodes', tree_depth, k)
                        = r_past_root(counters, kv_leaves, kv_nodes, tree_depth, k)]_vars

\* a tree that held two leaves, grew to four by two more adds, and whose
\* past_root(2) is still the root of the first two leaves alone
C12_Witness ==
    /\ kv_open = FALSE
    /\ last.op = "add"
    /\ ~last.vpanic
    /\ tree_depth = 4
    /\ Len(kept) = 4
    /\ v_past_root(vnodes, tree_depth, 2)
          = reference([i \in 1..2 |-> merkle_hash(kept[i])], tree_depth)
    /\ l_past_root(leaves, nodes, tree_depth, 2)
          = reference([i \in 1..2 |-> merkle_hash(kept[i])], tree_depth)
    /\ v_past_root(vnodes, tree_depth, 2) # v_root_hash(vnodes, tree_depth)

\* --------------------------------------------------------------------- C13
\* C13: the embodiments implement one contract. After every sequence of add
\* and truncate applied to a vector tree and to an arena tree (linked, or in
\* the key/value store) of the same depth, len, get(i), root_hash, past_root(k)
\* for 1 <= k <= len and witness(p) for p < len return equal results.
C13_EmbodimentsAgree ==
    /\ l_len(leaves) = v_len(vnodes)
    /\ l_root_hash(leaves, nodes, tree_depth) = v_root_hash(vnodes, tree_depth)
    /\ \A i \in 0..(LeafBound + 1) : l_get(leaves, i) = v_get(vnodes, i)
    /\ \A k \in 1..v_len(vnodes) :
          l_past_root(leaves, nodes, tree_depth, k) = v_past_root(vnodes, tree_depth, k)
    /\ kv_open =>
          /\ r_len(counters) = v_len(vnodes)
          /\ r_root_hash(counters, kv_leaves, kv_nodes, tree_depth)
                = v_root_hash(vnodes, tree_depth)
          /\ \A i \in 0..(LeafBound + 1) : r_get(kv_leaves, i) = v_get(vnodes, i)
          /\ \A k \in 1..v_len(vnodes) :
                r_past_root(counters, kv_leaves, kv_nodes, tree_depth, k)
                    = v_past_root(vnodes, tree_depth, k)
          /\ \A p \in 0..(v_len(vnodes) - 1) :
                /\ r_witness(counters, kv_leaves, kv_nodes, tree_depth, p)
                      = v_witness(vnodes, tree_depth, p)
                /\ s_witness(counters, kv_leaves, kv_nodes, tree_depth, p)
                      = v_witness(vnodes, tree_depth, p)

\* the same for the depths from 2 on and for get at the positions below len
C13_AgreeFromDepthTwo ==
    tree_depth >= 2 =>
        /\ l_len(leaves) = v_len(vnodes)
        /\ l_root_hash(leaves, nodes, tree_depth) = v_root_hash(vnodes, tree_depth)
        /\ \A i \in 0..(v_len(vnodes) - 1) : l_get(leaves, i) = v_get(vnodes, i)
        /\ \A k \in 1..v_len(vnodes) :
              l_past_root(leaves, nodes, tree_depth, k) = v_past_root(vnodes, tree_depth, k)
        /\ kv_open =>
              /\ r_len(counters) = v_len(vnodes)
              /\ r_root_hash(counters, kv_leaves, kv_nodes, tree_depth)
                    = v_root_hash(vnodes, tree_depth)
              /\ \A i \in 0..(v_len(vnodes) - 1) : r_get(kv_leaves, i) = v_get(vnodes, i)
              /\ \A k \in 1..v_len(vnodes) :
                    r_past_root(counters, kv_leaves, kv_nodes, tree_depth, k)
                        = v_past_root(vnodes, tree_depth, k)
              /\ \A p \in 0..(v_len(vnodes) - 1) :
                    /\ r_witness(counters, kv_leaves, kv_nodes, tree_depth, p)
                          = v_witness(vnodes, tree_depth, p)
                    /\ s_witness(counters, kv_leaves, kv_nodes, tree_depth, p)
                          = v_witness(vnodes, tree_depth, p)

\* --------------------------------------------------------------------- C14
\* C14: truncate(k) with k >= len is a no-op, truncate(0) and truncate(1) on
\* an empty tree and truncate(len) included: the leaves, the internal nodes and
\* the counters are the same after the call as before it, and so is the
\* result of every query.
C14_TruncateAtOrAboveLenIsNoOp ==
    [][last'.op = "truncate" =>
          \A k \in 0..(LeafBound + 1) :
          Truncate(k) /\ k >= Len(kept) =>
              /\ UNCHANGED <<vnodes, leaves, nodes, counters, kv_leaves, kv_nodes>>
              /\ v_root_hash(vnodes', tree_depth) = v_root_hash(vnodes, tree_depth)
              /\ l_root_hash(leaves', nodes', tree_depth)
                    = l_root_hash(leaves, nodes, tree_depth)
              /\ r_root_hash(counters', kv_leaves', kv_nodes', tree_depth)
                    = r_root_hash(counters, kv_leaves, kv_nodes, tree_depth)
              /\ \A i \in 0..(LeafBound + 1) :
                    /\ v_get(vnodes', i) = v_get(vnodes, i)
                    /\ l_get(leaves', i) = l_get(leaves, i)
                    /\ r_get(kv_leaves', i) = r_get(kv_leaves, i)
                    /\ v_past_root(vnodes', tree_depth, i) = v_past_root(vnodes, tree_depth, i)
                    /\ l_past_root(leaves', nodes', tree_depth, i)
                          = l_past_root(leaves, nodes, tree_depth, i)
                    /\ r_past_root(counters', kv_leaves', kv_nodes', tree_depth, i)
                          = r_past_root(counters, kv_leaves, kv_nodes, tree_depth, i)
                    /\ v_witness(vnodes', tree_depth, i) = v_witness(vnodes, tree_depth, i)
                    /\ r_witness(counters', kv_leaves', kv_nodes', tree_depth, i)
                          = r_witness(counters, kv_leaves, kv_nodes, tree_depth, i)]_vars

\* a truncate that cut nothing from a key/value tree of three leaves: the
\* store holds no record past LeafCount, which a cutting truncate leaves behind
C14_Witness ==
    /\ kv_open
    /\ last.op = "truncate"
    /\ tree_depth = 3
    /\ r_len(counters) = 3
    /\ Len(kv_leaves) = 3
    /\ v_len(vnodes) = 3
    /\ l_len(leaves) = 3

\* --------------------------------------------------------------------- C15
\* C15: len() is 0 for a new tree, grows by exactly 1 on every add that
\* succeeds (and stays on one that panics), and after truncate(k) equals
\* min(k, previous len); hence after every operation len is the number of adds
\* minus the number of leaves removed by truncates, which kept counts.
C15_LenCountsLeaves ==
    [][/\ last.op = "new" =>
              v_len(vnodes) = 0 /\ l_len(leaves) = 0 /\ r_len(counters) = 0
       /\ v_len(vnodes) = Len(kept) /\ v_len(vnodes') = Len(kept')
       /\ l_len(leaves) = Len(kept) /\ l_len(leaves') = Len(kept')
       /\ kv_open => r_len(counters) = Len(kept) /\ r_len(counters') = Len(kept')
       /\ last'.op = "add" => \A element \in Elements :
              Add(element) =>
                  /\ v_len(vnodes') = v_len(vnodes) + (IF last'.vpanic THEN 0 ELSE 1)
                  /\ l_len(leaves') = l_len(leaves) + (IF last'.lpanic THEN 0 ELSE 1)
                  /\ kv_open =>
                        r_len(counters') = r_len(counters) + (IF last'.rpanic THEN 0 ELSE 1)
       /\ last'.op = "truncate" => \A k \in 0..(LeafBound + 1) :
              Truncate(k) =>
                  /\ v_len(vnodes') = Min(k, v_len(vnodes))
                  /\ l_len(leaves') = Min(k, l_len(leaves))
                  /\ kv_open => r_len(counters') = Min(k, r_len(counters))]_vars

\* three adds and a truncate(2) later every tree reports two leaves, the
\* store still holding the record of the third
C15_Witness ==
    /\ kv_open
    /\ last.op = "truncate"
    /\ tree_depth = 3
    /\ Len(kv_leaves) = 3
    /\ Len(kept) = 2
    /\ v_len(vnodes) = 2
    /\ l_len(leaves) = 2
    /\ r_len(counters) = 2

C18_ReadMalformedReturnsError ==
    LET w == v_write(vnodes, tree_depth)
    IN  \A stream \in EndsEarly(w) \cup Rejected(w) \cup OverCapacity(w) :
            v_read(stream).tag = "Err"

\* the same for the streams with an element the codec rejects alone
C18_RejectedElementIsError ==
    \A stream \in Rejected(v_write(vnodes, tree_depth)) : v_read(stream).tag = "Err"

\* the same for the streams that end early alone
C18_EarlyEndIsError ==
    \A stream \in EndsEarly(v_write(vnodes, tree_depth)) : v_read(stream).tag = "Err"

\* a stream whose leaf count exceeds the capacity of its depth never panics
C18_OverCapacityNeverPanics ==
    \A stream \in OverCapacity(v_write(vnodes, tree_depth)) : v_read(stream).tag # "Panic"

\* --------------------------------------------------------------------- C19
\* C19: contained(e, k) is true iff e is the element at some position
\* i < min(k, len), and contains(e) equals contained(e, len), in every
\* reachable state; an element that only a record past LeafCount still holds
\* is not contained.
C19_ContainedIffAmongFirstK ==
    \A e \in Elements \cup {0} :
        /\ \A k \in 0..(LeafBound + 1) :
              LET among == \E i \in 0..(Min(k, Len(kept)) - 1) : kept[i + 1] = e
              IN  /\ v_contained(vnodes, e, k) <=> among
                  /\ kv_open => (r_contained(counters, kv_leaves, e, k) <=> among)
        /\ v_contains(vnodes, e) <=> v_contained(vnodes, e, v_len(vnodes))
        /\ v_contains(vnodes, e) <=> \E i \in 1..Len(kept) : kept[i] = e
        /\ kv_open =>
              /\ r_contains(counters, kv_leaves, e)
                    <=> r_contained(counters, kv_leaves, e, r_len(counters))
              /\ r_contains(counters, kv_leaves, e) <=> \E i \in 1..Len(kept) : kept[i] = e

\* two leaves with different elements: the second is contained at size 2 and
\* not at size 1, and the element of the record left past LeafCount, which
\* differs from the first leaf's, is not contained at size 3
C19_Witness ==
    /\ kv_open
    /\ Len(kept) = 2
    /\ Len(kv_leaves) = 3
    /\ kept[1] # kept[2]
    /\ kv_leaves[3].element # kept[1]
    /\ v_contained(vnodes, kept[2], 2)
    /\ ~v_contained(vnodes, kept[2], 1)
    /\ r_contained(counters, kv_leaves, kept[2], 2)
    /\ ~r_contained(counters, kv_leaves, kept[2], 1)
    /\ ~r_contained(counters, kv_leaves, kv_leaves[3].element, 1)

\* --------------------------------------------------------------------- C20
\* CountHasher: the hash of an element is the element, combine_hash is left + 1
RECURSIVE count_hash(_)
count_hash(h) == IF Len(h) = 1 THEN h[1] ELSE count_hash(h[2]) + 1

\* the depths of the combines met from the top of a hash down its left
\* (side = 2) or right (side = 3) argument, and the leaf hash met at the end
RECURSIVE spine_depths(_, _)
spine_depths(h, side) == IF Len(h) = 1 THEN <<>> ELSE <<h[1]>> \o spine_depths(h[side], side)

RECURSIVE spine_leaf(_, _)
spine_leaf(h, side) == IF Len(h) = 1 THEN h ELSE spine_leaf(h[side], side)

\* h is leaf lifted by n self-pair combines at the depths 0..n-1
lifted(h, leaf, n) ==
    /\ spine_depths(h, 2) = [i \in 1..n |-> n - i]
    /\ spine_depths(h, 3) = [i \in 1..n |-> n - i]
    /\ spine_leaf(h, 2) = leaf
    /\ spine_leaf(h, 3) = leaf

\* C20: a tree built by the default constructor has height 33. With a single
\* leaf, the deque, the leaves and the records being what one add leaves in a
\* tree of any depth, witness(0).auth_path has exactly 32 entries and root_hash
\* is the leaf hash lifted by exactly 32 self-pair combines at depths 0..31,
\* which CountHasher counts as the element plus 32 (33 for the element 1).
C20_DefaultTreeHasHeight33 ==
    Len(kept) = 1 =>
        LET leaf == merkle_hash(kept[1])
            vw == v_witness(vnodes, default_tree_depth, 0)
            vr == v_root_hash(vnodes, default_tree_depth)
            lr == l_root_hash(leaves, nodes, default_tree_depth)
            rw == r_witness(counters, kv_leaves, kv_nodes, default_tree_depth, 0)
            rr == r_root_hash(counters, kv_leaves, kv_nodes, default_tree_depth)
        IN  /\ vnodes = v_add(<<>>, default_tree_depth, kept[1]).nodes
            /\ vw.tag = "Some"
            /\ Len(vw.val.auth_path) = 32
            /\ vr.tag = "Some"
            /\ lifted(vr.val, leaf, 32)
            /\ lifted(vw.val.root_hash, leaf, 32)
            /\ count_hash(vr.val) = kept[1] + 32
            /\ kept[1] = 1 => count_hash(vw.val.root_hash) = 33
            /\ lr.tag = "Some"
            /\ lifted(lr.val, leaf, 32)
            /\ kv_open =>
                  /\ rw.tag = "Some"
                  /\ Len(rw.val.auth_path) = 32
                  /\ rr.tag = "Some"
                  /\ lifted(rr.val, leaf, 32)
                  /\ count_hash(rr.val) = kept[1] + 32

\* the single leaf 1 in all three trees, of which the default-depth root counts 33
C20_Witness ==
    /\ kv_open
    /\ last.op = "add"
    /\ kept = <<1>>
    /\ r_len(counters) = 1
    /\ Len(v_witness(vnodes, default_tree_depth, 0).val.auth_path) = 32
    /\ count_hash(v_root_hash(vnodes, default_tree_depth).val) = 33

\* --------------------------------------------------------------------- C21
\* the puts of add and of truncate, all applied, make the store the operation
\* leaves
C21_PutsMakeTheOperation ==
    kv_open /\ ~Stopped =>
        /\ \A element \in Elements :
              LET r == r_add(counters, kv_leaves, kv_nodes, tree_depth, element)
              IN  ~r.panic =>
                      apply_puts(RocksStore, r_add_puts(RocksStore, tree_depth, element))
                          = Store(r.c, r.kl, r.kn)
        /\ \A past_size \in 0..KvMaxLeaves :
              LET r == r_truncate(counters, kv_leaves, kv_nodes, past_size)
              IN  ~r.panic =>
                      apply_puts(RocksStore, r_truncate_puts(RocksStore, past_size))
                          = Store(r.c, r.kl, r.kn)

\* C21: every add and every truncate of the key/value tree is atomic: an
\* operation interrupted between two of its writes leaves the stored tree the
\* tree before the operation.
C21_InterruptedLeavesTreeBefore ==
    [][last'.op \in {"add_interrupted", "truncate_interrupted"} =>
           /\ counters' = counters
           /\ kv_leaves' = kv_leaves
           /\ kv_nodes' = kv_nodes]_vars

\* leaf count, node count, leaf records and node records agree: every leaf
\* below LeafCount has both its records and every node below NodeCount is stored
StoreAgrees ==
    /\ \A i \in 0..(num_leaves(counters) - 1) :
          has_leaf(kv_leaves, i) /\ kv_leaves[i + 1].element # NoElement
    /\ \A i \in 1..(num_nodes(counters) - 1) : get_node(kv_nodes, i).kind # "OutOfRange"
    /\ num_leaves(counters) >= 2 => num_nodes(counters) >= 2

\* no interruption leaves a store whose counts and records disagree
C21_StoreAlwaysAgrees == kv_open => StoreAgrees

\* --------------------------------------------------------------------- C22
\* the public call has returned to the host
Returned(names) == txn.stack = <<>> /\ txn.call.name \in names

C23_NoTransactionInsideTransaction ==
    /\ ~txn.blocked
    /\ (txn.stack # <<>> /\ ~at_end /\ next_ins.do = "begin") => ~txn.open
    /\ txn.open =>
          \E i \in 1..Len(txn.stack) :
              /\ sled_body(txn.stack[i].name)[1].do = "begin"
              /\ \A j \in (i + 1)..Len(txn.stack) : txn.stack[j].name = "rehash_right_path"

\* truncate(2) of a tree of three leaves is inside rehash_right_path, its
\* transaction open
C23_Witness ==
    /\ txn.open
    /\ txn.call.name = "truncate"
    /\ txn.call.position = 2
    /\ r_len(counters) = 3
    /\ Len(txn.stack) = 2
    /\ top_frame.name = "rehash_right_path"

\* --------------------------------------------------------------------- C24
\* the nodes vector of the linked tree: at least one node, Empty at index 0
\* and nowhere else
C24_LinkedNodeStore ==
    /\ Len(nodes) >= 1
    /\ node_at(nodes, 0) = Empty
    /\ \A i \in 1..(Len(nodes) - 1) : node_at(nodes, i).kind \in {"Left", "Right"}

\* the nodes of the key/value tree below NodeCount: Empty at index 0, a stored
\* Left or Right at every other index
C24_KvCountedNodes ==
    kv_open =>
        /\ get_node(kv_nodes, 0) = Empty
        /\ \A i \in 1..(num_nodes(counters) - 1) :
              get_node(kv_nodes, i).kind \in {"Left", "Right"}

\* C24: in every reachable state, a freshly constructed tree and the state
\* after truncate(0) or truncate(1) included, the node store holds at least one
\* node, index 0 holds Empty and no index from 1 to node count - 1 holds Empty;
\* a new tree reports exactly one stored node.
C24_NodeStoreShape ==
    /\ C24_LinkedNodeStore
    /\ C24_KvCountedNodes
    /\ kv_open => num_nodes(counters) >= 1
    /\ last.op = "new" => Len(nodes) = 1 /\ (kv_open => num_nodes(counters) = 1)

\* once NodeCount has been written the key/value tree reports at least one node
C24_KvCountOnceWritten == "NodeCount" \in DOMAIN counters => num_nodes(counters) >= 1

\* ------------------------------------------------------- arena as a tree
\* the counted part of the key/value tree laid out as the linked tree's vectors
KvArena == <<Empty>> \o [i \in 1..(num_nodes(counters) - 1) |-> get_node(kv_nodes, i)]
KvLeafParents == [i \in 1..num_leaves(counters) |-> kv_leaves[i].parent]
LeafParents == [i \in 1..Len(leaves) |-> leaves[i].parent]

\* the node reached from leaf k (counted from 0) by d parent links; 0 past the top
RECURSIVE ancestor(_, _, _, _)
ancestor(lp, ns, k, d) ==
    IF d = 1 THEN lp[k + 1]
    ELSE LET below == ancestor(lp, ns, k, d - 1)
         IN  IF below = 0 THEN 0 ELSE parent_index(ns, below)

\* the places <<level, index in the level>> the leaves' parent chains give node n
coords(lp, ns, n) ==
    {c \in (1..MaxDepth) \X (0..Len(lp)) :
        \E k \in 0..(Len(lp) - 1) : c[2] = k \div Pow2(c[1]) /\ ancestor(lp, ns, k, c[1]) = n}

\* the hashes of level d of the reference tree over the leaf hashes hs, a hash
\* without a right neighbour being paired with itself
RECURSIVE level_hashes(_, _)
level_hashes(hs, d) == IF d = 0 THEN hs ELSE pair_level(level_hashes(hs, d - 1), d - 1)

\* the hash of the subtree at place c
subtree_hash(hs, c) == level_hashes(hs, c[1])[c[2] + 1]

\* the stored Right nodes whose left link is n
right_siblings(ns, n) ==
    {r \in 1..(Len(ns) - 1) : node_at(ns, r).kind = "Right" /\ node_at(ns, r).left = n}

\* --------------------------------------------------------------------- C25
\* every Right node of the arena pairs with its Left sibling
right_nodes_paired(lp, ns, hs) ==
    \A r \in 1..(Len(ns) - 1) :
        node_at(ns, r).kind = "Right" =>
            LET l == node_at(ns, r).left
            IN  /\ node_at(ns, l).kind = "Left"
                /\ \E c \in coords(lp, ns, r) :
                      /\ coords(lp, ns, r) = {c}
                      /\ c[2] % 2 = 1
                      /\ coords(lp, ns, l) = {<<c[1], c[2] - 1>>}
                      /\ node_at(ns, r).hash_of_sibling = subtree_hash(hs, <<c[1], c[2] - 1>>)
                      /\ node_at(ns, l).hash_of_sibling = subtree_hash(hs, c)

\* C25: after every add and truncate, for every stored Right node r with link
\* left, the node at left is a Left node of the same level and r's left
\* sibling, r.hash_of_sibling is the hash of the left sibling's subtree and
\* the Left node's hash_of_sibling is the self-pair padded hash of r's subtree
\* over the current leaves. Checked on the linked tree and on the counted
\* nodes of the key/value tree.
C25_RightNodesPairWithLeftSiblings ==
    /\ right_nodes_paired(LeafParents, nodes, LHashes)
    /\ kv_open => right_nodes_paired(KvLeafParents, KvArena, RHashes)

\* five leaves left by a truncate: Right nodes on two levels, the upper one
\* over a subtree of a single leaf
C25_Witness ==
    /\ last.op = "truncate"
    /\ ~last.lpanic
    /\ Len(leaves) = 5
    /\ \E r \in 1..(Len(nodes) - 1) :
          node_at(nodes, r).kind = "Right" /\ coords(LeafParents, nodes, r) = {<<2, 1>>}
    /\ \E r \in 1..(Len(nodes) - 1) :
          node_at(nodes, r).kind = "Right" /\ coords(LeafParents, nodes, r) = {<<1, 1>>}

\* --------------------------------------------------------------------- C26
\* every Left node of the arena without a Right sibling caches its own hash
left_nodes_self_paired(lp, ns, hs) ==
    \A n \in 1..(Len(ns) - 1) :
        (node_at(ns, n).kind = "Left" /\ right_siblings(ns, n) = {}) =>
            \E c \in coords(lp, ns, n) :
                /\ coords(lp, ns, n) = {c}
                /\ node_at(ns, n).hash_of_sibling = subtree_hash(hs, c)

\* C26: after every add and truncate, every stored Left node that has no
\* stored Right sibling (the nodes of the rightmost path whose right half is
\* vacant, the root-level node included) has hash_of_sibling equal to the
\* self-pair padded hash of its own subtree over the current leaves. Checked
\* on the linked tree and on the counted nodes of the key/value tree.
C26_LoneLeftNodesCacheOwnHash ==
    /\ left_nodes_self_paired(LeafParents, nodes, LHashes)
    /\ kv_open => left_nodes_self_paired(KvLeafParents, KvArena, RHashes)

\* five leaves after an add: the parent of the fifth leaf and the root-level
\* node are Left nodes without a Right sibling
C26_Witness ==
    /\ last.op = "add"
    /\ ~last.lpanic
    /\ Len(leaves) = 5
    /\ \E n \in 1..(Len(nodes) - 1) :
          /\ node_at(nodes, n).kind = "Left"
          /\ right_siblings(nodes, n) = {}
          /\ coords(LeafParents, nodes, n) = {<<1, 2>>}
    /\ \E n \in 1..(Len(nodes) - 1) :
          /\ node_at(nodes, n).kind = "Left"
          /\ right_siblings(nodes, n) = {}
          /\ coords(LeafParents, nodes, n) = {<<3, 0>>}

\* --------------------------------------------------------------------- C27
\* the level of the root-level node of a tree of n >= 2 leaves
root_level(n) == depth_at_leaf_count(n) - 1

\* every Left node of the arena links to 0 at the root level and to its parent
\* below it
left_parents_linked(lp, ns) ==
    \A n \in 1..(Len(ns) - 1) :
        node_at(ns, n).kind = "Left" =>
            \E c \in coords(lp, ns, n) :
                /\ coords(lp, ns, n) = {c}
                /\ (node_at(ns, n).parent = 0) <=> (c = <<root_level(Len(lp)), 0>>)
                /\ node_at(ns, n).parent # 0 =>
                      /\ node_at(ns, n).parent < Len(ns)
                      /\ coords(lp, ns, node_at(ns, n).parent) = {<<c[1] + 1, c[2] \div 2>>}

\* C27: after every add and truncate, the parent of every stored Left node is
\* 0 exactly when the node is the root-level node of the current tree, and is
\* otherwise the index of a stored node one level higher whose subtree
\* contains it. Checked on the linked tree and on the counted nodes of the
\* key/value tree.
C27_LeftParentLinks ==
    /\ left_parents_linked(LeafParents, nodes)
    /\ kv_open => left_parents_linked(KvLeafParents, KvArena)

\* when an add grows the tree by a level the old root-level node is rebound to
\* the new one, and when a truncate shrinks it the surviving root-level
\* node's parent is reset to 0
C27_RootRebound ==
    [][(last'.op \in {"add", "truncate"} /\ ~last'.lpanic /\ Len(leaves) >= 2
            /\ Len(leaves') >= 2 /\ root_level(Len(leaves')) # root_level(Len(leaves)))
        => \E old, new \in 1..(Len(nodes) - 1) :
               /\ coords(LeafParents, nodes, old) = {<<root_level(Len(leaves)), 0>>}
               /\ node_at(nodes, old).parent = 0
               /\ IF Len(leaves') > Len(leaves)
                  THEN /\ node_at(nodes', old).parent # 0
                       /\ node_at(nodes', node_at(nodes', old).parent).kind = "Left"
                       /\ node_at(nodes', node_at(nodes', old).parent).parent = 0
                  ELSE /\ node_at(nodes, new).kind = "Left"
                       /\ node_at(nodes, new).parent # 0
                       /\ node_at(nodes', new).kind = "Left"
                       /\ node_at(nodes', new).parent = 0]_vars

\* a tree of five leaves truncated to three: the node over the first four
\* leaves is the root-level node again
C27_Witness ==
    /\ last.op = "truncate"
    /\ ~last.lpanic
    /\ Len(leaves) = 3
    /\ Len(nodes) = 4
    /\ \E n \in 1..(Len(nodes) - 1) :
          /\ node_at(nodes, n).kind = "Left"
          /\ node_at(nodes, n).parent = 0
          /\ coords(LeafParents, nodes, n) = {<<2, 0>>}
    /\ \E n \in 1..(Len(nodes) - 1) :
          /\ node_at(nodes, n).kind = "Left"
          /\ node_at(nodes, n).parent # 0

\* --------------------------------------------------------------------- C28
\* a fresh vector tree of depth D to which s is added in order
RECURSIVE v_build(_, _)
v_build(s, D) ==
    IF Len(s) = 0 THEN <<>> ELSE v_add(v_build(Take(s, Len(s) - 1), D), D, s[Len(s)]).nodes

\* positions and sizes asked for: every one up to one past the end
Asked == 0..(Len(kept) + 1)

\* the in-memory trees answer as fresh trees built from the elements kept
C28_InMemoryAsFresh ==
    LET fv == v_build(kept, tree_depth)
        fl == l_build(kept, tree_depth)
    IN  /\ v_len(vnodes) = v_len(fv)
        /\ v_root_hash(vnodes, tree_depth) = v_root_hash(fv, tree_depth)
        /\ \A p \in Asked :
              /\ v_get(vnodes, p) = v_get(fv, p)
              /\ v_past_root(vnodes, tree_depth, p) = v_past_root(fv, tree_depth, p)
              /\ v_witness(vnodes, tree_depth, p) = v_witness(fv, tree_depth, p)
        /\ l_len(leaves) = l_len(fl.leaves)
        /\ l_root_hash(leaves, nodes, tree_depth) = l_root_hash(fl.leaves, fl.nodes, tree_depth)
        /\ \A p \in Asked :
              /\ l_get(leaves, p) = l_get(fl.leaves, p)
              /\ l_past_root(leaves, nodes, tree_depth, p)
                    = l_past_root(fl.leaves, fl.nodes, tree_depth, p)

\* the key/value tree answers len, root_hash, past_root and witness as a fresh
\* tree built from the elements kept, and get below len
C28_KvAsFreshBelowLen ==
    kv_open =>
        LET f == r_build(kept, tree_depth)
        IN  /\ r_len(counters) = r_len(f.c)
            /\ r_root_hash(counters, kv_leaves, kv_nodes, tree_depth)
                  = r_root_hash(f.c, f.kl, f.kn, tree_depth)
            /\ \A p \in Asked :
                  /\ p < r_len(counters) => r_get(kv_leaves, p) = r_get(f.kl, p)
                  /\ r_past_root(counters, kv_leaves, kv_nodes, tree_depth, p)
                        = r_past_root(f.c, f.kl, f.kn, tree_depth, p)
                  /\ r_witness(counters, kv_leaves, kv_nodes, tree_depth, p)
                        = r_witness(f.c, f.kl, f.kn, tree_depth, p)
                  /\ s_witness(counters, kv_leaves, kv_nodes, tree_depth, p)
                        = s_witness(f.c, f.kl, f.kn, tree_depth, p)

\* C28: truncation leaves no observable residue: after truncate(k) and further
\* adds, len, get, root_hash, past_root(j) for every j and witness(p) for every
\* p are those of a fresh tree built by adding the elements kept; no record
\* past the logical counts is read before it is overwritten.
C28_NoObservableResidue ==
    /\ C28_InMemoryAsFresh
    /\ C28_KvAsFreshBelowLen
    /\ kv_open =>
          \A p \in Asked : r_get(kv_leaves, p) = r_get(r_build(kept, tree_depth).kl, p)

\* --------------------------------------------------------------------- C29
\* every link of the arena addresses a stored node
links_in_range(lp, ns) ==
    /\ \A k \in 1..Len(lp) : lp[k] < Len(ns)
    /\ \A n \in 1..(Len(ns) - 1) :
          /\ node_at(ns, n).kind = "Left" => node_at(ns, n).parent < Len(ns)
          /\ node_at(ns, n).kind = "Right" =>
                node_at(ns, n).left >= 1 /\ node_at(ns, n).left < Len(ns)

\* the aborts the claim lists are unreachable: every link is in range, an add
\* on a tree that is not full does not abort (its walk meets no Empty node),
\* past_root(j) for 1 <= j <= len does not abort, and no truncate aborts
C29_ListedAbortsUnreachable ==
    /\ links_in_range(LeafParents, nodes)
    /\ kv_open => links_in_range(KvLeafParents, KvArena)
    /\ \A element \in Elements :
          /\ l_add(leaves, nodes, tree_depth, element).panic => l_add_full(leaves, tree_depth)
          /\ kv_open /\ r_add(counters, kv_leaves, kv_nodes, tree_depth, element).panic
                => r_add_full(counters, tree_depth)
    /\ \A j \in 1..Len(kept) :
          /\ l_past_root(leaves, nodes, tree_depth, j).tag # "Panic"
          /\ kv_open => r_past_root(counters, kv_leaves, kv_nodes, tree_depth, j).tag # "Panic"
    /\ \A k \in 0..(Len(kept) + 1) :
          /\ ~l_truncate(leaves, nodes, k).panic
          /\ kv_open => ~r_truncate(counters, kv_leaves, kv_nodes, k).panic

\* the only query that aborts is past_root(0), and never on the key/value tree
C29_OnlyPastRootZeroAborts ==
    \A call \in Calls :
        /\ (v_query(call.name, call.value, call.position).tag = "Panic"
                \/ l_query(call.name, call.value, call.position).tag = "Panic")
              => call.name = "past_root" /\ call.position = 0
        /\ kv_open => r_query(call.name, call.value, call.position).tag # "Panic"

\* C29: no internal abort is reachable by any sequence of public operations on
\* a tree within capacity: every link is an index below the stored node count,
\* the insertion walk never reads an Empty node, past_root never reads an
\* Empty node inside its walk, truncate always finds a Left node at the new
\* root position, and no query aborts.
C29_NoInternalAbort ==
    /\ C29_ListedAbortsUnreachable
    /\ \A call \in Calls :
          /\ v_query(call.name, call.value, call.position).tag # "Panic"
          /\ l_query(call.name, call.value, call.position).tag # "Panic"
          /\ kv_open => r_query(call.name, call.value, call.position).tag # "Panic"

\* --------------------------------------------------------------------- C30
\* the nodes the loop of rehash_right_path visits from index before it meets
\* the Empty sentinel; -1 when it has not met it after fuel nodes
RECURSIVE rehash_levels(_, _, _)
rehash_levels(ns, index, fuel) ==
    LET node == node_at(ns, index)
    IN  IF node.kind = "Empty" THEN 0
        ELSE IF fuel = 0 \/ node.kind = "OutOfRange" THEN -1
        ELSE LET rest == rehash_levels(ns, IF node.kind = "Left" THEN node.parent
                                           ELSE parent_index(ns, node.left), fuel - 1)
             IN  IF rest < 0 THEN -1 ELSE rest + 1

\* the iterations of `while depth != self.tree_depth` in root_hash, depth
\* starting at 1; -1 when depth is already past the stored depth
root_hash_levels(stored) == IF stored >= 1 THEN stored - 1 ELSE -1

\* levels visited from every leaf of an arena: the sentinel is met, after at
\* most D nodes
levels_bounded(lp, ns, D) ==
    \A k \in 1..Len(lp) :
        rehash_levels(ns, lp[k], Len(ns)) >= 0 /\ rehash_levels(ns, lp[k], Len(ns)) <= D

no_call_diverges ==
    \A call \in Calls :
        /\ v_query(call.name, call.value, call.position).tag # "Diverge"
        /\ l_query(call.name, call.value, call.position).tag # "Diverge"
        /\ kv_open => r_query(call.name, call.value, call.position).tag # "Diverge"

\* with D >= 2 every walk ends within D levels: parent links are acyclic and
\* the root_hash walk meets its stopping depth
C30_TerminatesForDepthAtLeastTwo ==
    tree_depth >= 2 =>
        /\ levels_bounded(LeafParents, nodes, tree_depth)
        /\ kv_open => levels_bounded(KvLeafParents, KvArena, tree_depth)
        /\ root_hash_levels(stored_depth(tree_depth)) \in 0..tree_depth
        /\ no_call_diverges

\* parent links are acyclic for every depth, D = 1 included
C30_ParentLinksAcyclic ==
    /\ levels_bounded(LeafParents, nodes, tree_depth)
    /\ kv_open => levels_bounded(KvLeafParents, KvArena, tree_depth)

\* C30: every add, truncate, root_hash, past_root and witness call terminates
\* after visiting at most D levels, for every tree depth D >= 1 and every
\* reachable tree: parent links are acyclic, so the rehash walk reaches the
\* Empty sentinel, and the root_hash walk reaches its stopping depth.
C30_EveryCallTerminates ==
    /\ C30_ParentLinksAcyclic
    /\ Len(leaves) > 0 => root_hash_levels(stored_depth(tree_depth)) \in 0..tree_depth
    /\ no_call_diverges

\* --------------------------------------------------------------------- C31
\* a step rewrites no surviving leaf: same element, and same parent except
\* for leaf 0, whose parent is 0 while it is the only leaf and 1 otherwise
leaves_written_once(before, after) ==
    /\ \A k \in 1..Min(Len(before), Len(after)) :
          /\ after[k].element = before[k].element
          /\ k > 1 => after[k].parent = before[k].parent
    /\ Len(after) >= 1 => after[1].parent = (IF Len(after) = 1 THEN 0 ELSE 1)

KvCountedLeaves == [i \in 1..num_leaves(counters) |-> kv_leaves[i]]

\* C31: a leaf is written once: from the add that creates it until a truncate
\* removes it its element never changes, and its parent index changes only
\* for leaf 0, to 1 when the second add creates the first internal node and
\* back to 0 when the tree is truncated to one leaf.
C31_LeafWrittenOnce ==
    [][leaves_written_once(leaves, leaves')]_vars

\* the key/value tree obeys the same rule over its counted leaves
C31_KvLeafWrittenOnce ==
    [][kv_open => leaves_written_once(KvCountedLeaves, KvCountedLeaves')]_vars

\* leaf 0 has been rebound by a second add and other leaves have been added
\* and removed since
C31_Witness ==
    /\ last.op = "truncate"
    /\ Len(leaves) = 3
    /\ leaves[1].parent = 1
    /\ leaves[3].parent # leaves[2].parent

\* --------------------------------------------------------------------- C32
\* the nodes on the path from the last leaf to the top of an arena
rightmost_path(lp, ns) ==
    {ancestor(lp, ns, Len(lp) - 1, d) : d \in 1..MaxDepth} \ {0}

\* the nodes rehash_right_path may write: the Left nodes of the rightmost
\* path and the left siblings of its Right nodes
rehashed(lp, ns) ==
    {n \in rightmost_path(lp, ns) : node_at(ns, n).kind = "Left"}
        \cup {node_at(ns, n).left : n \in {m \in rightmost_path(lp, ns) :
                                              node_at(ns, m).kind = "Right"}}

\* what an add at an odd position k >= 3 leaves alone, lb/nb being the leaf
\* parents and nodes before it and la/na those after it
odd_add_frame(lb, nb, la, na) ==
    (Len(la) = Len(lb) + 1 /\ Len(lb) % 2 = 1 /\ Len(lb) >= 3) =>
        /\ Len(na) = Len(nb)
        /\ la[Len(la)] = lb[Len(lb)]
        /\ \A k \in 1..Len(lb) : la[k] = lb[k]
        /\ \A n \in 1..(Len(nb) - 1) :
              /\ node_at(na, n).kind = node_at(nb, n).kind
              /\ node_at(na, n).parent = node_at(nb, n).parent
              /\ node_at(na, n).left = node_at(nb, n).left
              /\ node_at(na, n) # node_at(nb, n) =>
                    n \in rehashed(la, na) /\ node_at(na, n).kind = "Left"

\* C32: adding a leaf at an odd position k >= 3 appends no internal node and
\* changes no parent or left link: the new leaf receives the parent index of
\* leaf k-1, the node count is unchanged, and the only node fields rewritten
\* are hash_of_sibling values of Left nodes on the rightmost path or of left
\* siblings of Right nodes on that path.
C32_OddAddRewritesHashesOnly ==
    [][odd_add_frame(LeafParents, nodes, LeafParents', nodes')]_vars

\* the sixth leaf (position 5) has just been added beside the fifth
C32_Witness ==
    /\ last.op = "add"
    /\ ~last.lpanic
    /\ Len(leaves) = 6
    /\ leaves[6].parent = leaves[5].parent
    /\ \E n \in rehashed(LeafParents, nodes) : node_at(nodes, n).kind = "Left"

\* --------------------------------------------------------------------- C33
\* the witness w, handed the leaf hash h, verifies against root
cross_verifies(w, h, root) ==
    /\ w.tag = "Some"
    /\ root.tag = "Some"
    /\ verify([w.val EXCEPT !.root_hash = root.val], h)

\* the trees obtained by adding one more copy of the last element
VTwin == v_add(vnodes, tree_depth, kept[Len(kept)])
LTwin == l_add(leaves, nodes, tree_depth, kept[Len(kept)])
RTwin == r_add(counters, kv_leaves, kv_nodes, tree_depth, kept[Len(kept)])

\* hash of the leaf at position p of a tree and of its twin
twin_hash(p) == merkle_hash(IF p < Len(kept) THEN kept[p + 1] ELSE kept[Len(kept)])

v_roots_alias ==
    ~VTwin.panic =>
        /\ v_root_hash(vnodes, tree_depth).tag = "Some"
        /\ v_root_hash(VTwin.nodes, tree_depth) = v_root_hash(vnodes, tree_depth)
        /\ \A p \in 0..(Len(kept) - 1) :
              cross_verifies(v_witness(vnodes, tree_depth, p), twin_hash(p),
                             v_root_hash(VTwin.nodes, tree_depth))
        /\ \A p \in 0..Len(kept) :
              cross_verifies(v_witness(VTwin.nodes, tree_depth, p), twin_hash(p),
                             v_root_hash(vnodes, tree_depth))

l_roots_alias ==
    ~LTwin.panic =>
        /\ l_root_hash(leaves, nodes, tree_depth).tag = "Some"
        /\ l_root_hash(LTwin.leaves, LTwin.nodes, tree_depth)
              = l_root_hash(leaves, nodes, tree_depth)

r_roots_alias ==
    (kv_open /\ ~RTwin.panic) =>
        /\ r_root_hash(counters, kv_leaves, kv_nodes, tree_depth).tag = "Some"
        /\ r_root_hash(RTwin.c, RTwin.kl, RTwin.kn, tree_depth)
              = r_root_hash(counters, kv_leaves, kv_nodes, tree_depth)
        /\ \A p \in 0..(Len(kept) - 1) :
              /\ cross_verifies(r_witness(counters, kv_leaves, kv_nodes, tree_depth, p),
                                twin_hash(p),
                                r_root_hash(RTwin.c, RTwin.kl, RTwin.kn, tree_depth))
              /\ cross_verifies(s_witness(counters, kv_leaves, kv_nodes, tree_depth, p),
                                twin_hash(p),
                                r_root_hash(RTwin.c, RTwin.kl, RTwin.kn, tree_depth))
        /\ \A p \in 0..Len(kept) :
              /\ cross_verifies(r_witness(RTwin.c, RTwin.kl, RTwin.kn, tree_depth, p),
                                twin_hash(p),
                                r_root_hash(counters, kv_leaves, kv_nodes, tree_depth))
              /\ cross_verifies(s_witness(RTwin.c, RTwin.kl, RTwin.kn, tree_depth, p),
                                twin_hash(p),
                                r_root_hash(counters, kv_leaves, kv_nodes, tree_depth))

\* C33: self-pair padding makes roots alias: for every tree whose len is odd,
\* root_hash equals the root_hash of the tree obtained by adding one more
\* copy of the last element, and a witness taken from either tree verifies
\* against the root of the other.
C33_OddTreeAliasesItsTwin ==
    Len(kept) % 2 = 1 => v_roots_alias /\ l_roots_alias /\ r_roots_alias

\* a tree of three leaves whose twin of four exists in every embodiment
C33_Witness ==
    /\ Len(kept) = 3
    /\ kv_open
    /\ ~VTwin.panic /\ ~LTwin.panic /\ ~RTwin.panic
    /\ l_len(LTwin.leaves) = 4
    /\ l_root_hash(LTwin.leaves, LTwin.nodes, tree_depth) = l_root_hash(leaves, nodes, tree_depth)

\* --------------------------------------------------------------------- C34
\* leaf counts handed to depth_at_leaf_count: the small ones and those around
\* every power of two up to 2^MaxCountBits
MaxCountBits == 26

LeafCounts ==
    (0..9) \cup {Pow2(k) + j : k \in 3..MaxCountBits, j \in -1..2}

\* a call of depth_at_leaf_count(n), as past_root and truncate make it
DepthAtLeafCount(n) ==
    /\ last' = [op |-> "depth_at_leaf_count", vpanic |-> FALSE, lpanic |-> FALSE,
                rpanic |-> FALSE, n |-> n, depth |-> depth_at_leaf_count(n)]
    /\ UNCHANGED <<tree_depth, kv_open, vnodes, leaves, nodes, counters, kv_leaves,
                   kv_nodes, kept, txn>>

DepthNext == \E n \in LeafCounts : DepthAtLeafCount(n)

DepthSpec == Init /\ [][DepthNext]_vars

\* floor(log2(n - 1)) + 2 in integers
integer_depth(n) == IF n = 0 THEN 0 ELSE IF n = 1 THEN 1 ELSE Log2Floor(n - 1) + 2

\* C34: depth_at_leaf_count(n) returns 0 for n = 0, 1 for n = 1 and
\* floor(log2(n - 1)) + 2 for every n >= 2 up to the tree capacity, which is
\* the number of levels past_root and truncate walk for a tree of n leaves.
C34_DepthAtLeafCount ==
    last.op = "depth_at_leaf_count" => last.depth = integer_depth(last.n)

\* the value is the integer one while n - 1 fits the 24 bit mantissa of f32
\* and the logarithm is taken exactly
C34_ExactWithinMantissa ==
    (last.op = "depth_at_leaf_count" /\ last.n <= 16777216) =>
        last.depth = integer_depth(last.n)

\* for a reachable tree of n leaves it is one more than the number of nodes
\* between the last leaf and the Empty sentinel
C34_DepthIsLevelsOfTree ==
    Len(leaves) >= 1 =>
        /\ depth_at_leaf_count(Len(leaves)) = integer_depth(Len(leaves))
        /\ depth_at_leaf_count(Len(leaves))
              = rehash_levels(nodes, leaves[Len(leaves)].parent, Len(nodes)) + 1

\* ------------------------------------------------- the vector tree alone
\* a tree deep enough for a fifth level of slots, and the leaves that reach it
DequeDepth == 5
DequeLeaves == 9

DequeInit ==
    /\ tree_depth = DequeDepth
    /\ kv_open = FALSE
    /\ vnodes = <<>>
    /\ leaves = <<>>
    /\ nodes = <<Empty>>
    /\ counters = NoCounters
    /\ kv_leaves = <<>>
    /\ kv_nodes = <<>>
    /\ last = [op |-> "new", vpanic |-> FALSE, lpanic |-> FALSE, rpanic |-> FALSE]
    /\ kept = <<>>
    /\ txn = NoCall

\* VectorMerkleTree::add
VectorAdd(element) ==
    LET v == v_add(vnodes, tree_depth, element)
    IN  /\ v_len(vnodes) < DequeLeaves
        /\ vnodes' = v.nodes
        /\ last' = [op |-> "add", vpanic |-> v.panic, lpanic |-> FALSE, rpanic |-> FALSE]
        /\ kept' = IF v.panic THEN kept ELSE Append(kept, element)
        /\ UNCHANGED <<tree_depth, kv_open, leaves, nodes, counters, kv_leaves, kv_nodes, txn>>

\* VectorMerkleTree::truncate
VectorTruncate(past_size) ==
    /\ vnodes' = v_truncate(vnodes, past_size)
    /\ last' = [op |-> "truncate", vpanic |-> FALSE, lpanic |-> FALSE, rpanic |-> FALSE]
    /\ kept' = Take(kept, Min(past_size, Len(kept)))
    /\ UNCHANGED <<tree_depth, kv_open, leaves, nodes, counters, kv_leaves, kv_nodes, txn>>

DequeNext ==
    \/ \E element \in Elements : VectorAdd(element)
    \/ \E past_size \in 0..(DequeLeaves + 1) : VectorTruncate(past_size)

DequeSpec == DequeInit /\ [][DequeNext]_vars

\* --------------------------------------------------------------------- C35
\* the number of levels of internal slots of a deque
internal_levels(ns) ==
    IF first_leaf(Len(ns)) = 0 THEN 0 ELSE depth_at_index(first_leaf(Len(ns)) - 1)

\* slot i is an Internal node holding the pair of its children's hashes, the
\* left one standing in for a right one that is absent or Empty
internal_slot_hashed(ns, i) ==
    LET l == extract_hash(ns, left_child_index(i))
        r == extract_hash(ns, left_child_index(i) + 1)
        d == internal_levels(ns) - depth_at_index(i)
    IN  /\ l # <<>>
        /\ ns[i + 1].hash = combine_hash(d, l, IF r = <<>> THEN l ELSE r)

\* leaves from first_leaf on, Internal or Empty slots before it, an Empty
\* slot over no Leaf or Internal child, an Internal slot over its pair
deque_shaped(ns) ==
    \A i \in 0..(Len(ns) - 1) :
        /\ i >= first_leaf(Len(ns)) => ns[i + 1].kind = "Leaf"
        /\ i < first_leaf(Len(ns)) => ns[i + 1].kind \in {"Internal", "Empty"}
        /\ ns[i + 1].kind = "Empty" =>
              /\ extract_hash(ns, left_child_index(i)) = <<>>
              /\ extract_hash(ns, left_child_index(i) + 1) = <<>>
        /\ ns[i + 1].kind = "Internal" => internal_slot_hashed(ns, i)

\* the same with `no child in the deque` read as: both child indexes lie past
\* the end of the deque
deque_shaped_strictly(ns) ==
    /\ deque_shaped(ns)
    /\ \A i \in 0..(Len(ns) - 1) :
          ns[i + 1].kind = "Empty" => left_child_index(i) >= Len(ns)

\* C35: in the vector embodiment, after any sequence of add and truncate
\* operations every slot at index >= first_leaf(node count) is a Leaf, every
\* slot below it is Internal or Empty, a slot is Empty only if it has no
\* child in the deque, and every Internal slot stores combine_hash of its
\* left child's hash with its right child's hash (or with the left child's
\* hash again when the right child is absent or Empty) at the depth of its
\* level.
C35_DequeShape == deque_shaped(vnodes)

\* C35 as worded, an Empty slot having both child indexes past the end of the
\* deque
C35_DequeShapeStrictly == deque_shaped_strictly(vnodes)

\* nine leaves: Empty slot 6 lies over the Empty slots 13 and 14, beside
\* Internal slot 5, which pairs Internal slot 11 with itself over Empty slot 12
C35_Witness ==
    /\ v_len(vnodes) = 9
    /\ vnodes[7].kind = "Empty"
    /\ vnodes[14].kind = "Empty" /\ vnodes[15].kind = "Empty"
    /\ vnodes[13].kind = "Empty"
    /\ vnodes[6].kind = "Internal"
    /\ vnodes[6].hash = combine_hash(1, extract_hash(vnodes, 11), extract_hash(vnodes, 11))

====
